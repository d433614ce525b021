-------------------------------- MODULE Labels --------------------------------
(***************************************************************************)
(* The labels every client knows (sdk/src/moderation/const/labels.ts):     *)
(* their default setting, whether the user may change it, their flags and  *)
(* what they do where.  A missing behavior is "".                          *)
(***************************************************************************)
EXTENDS TLC, Sequences, Integers, FiniteSets

\* DEFAULT_LABEL_SETTINGS: what getPreferences seeds the labels with.
DEFAULT_LABEL_SETTINGS ==
    [l \in {"porn", "sexual", "nudity", "graphic-media"} |->
        CASE l = "porn" -> "hide" [] l = "nudity" -> "ignore" [] OTHER -> "warn"]

Contexts == {"profileList", "profileView", "avatar", "banner", "displayName",
             "contentList", "contentView", "contentMedia"}
Targets == {"account", "profile", "content"}

\* A behavior: what a label does in each context, nothing where it is not given.
Does(what, where) == [c \in Contexts |-> IF c \in where THEN what ELSE ""]
NOOP_BEHAVIOR == Does("", {})

\* The three tables of behaviors the known labels have: the system labels blur
\* everything (a !warn leaves account names), the media labels the pictures.
BlursAll ==
    [ account |-> Does("blur", Contexts \ {"contentMedia"}),
      profile |-> Does("blur", {"avatar", "banner", "displayName"}),
      content |-> Does("blur", {"contentList", "contentView"}) ]
BlursMedia ==
    [ account |-> Does("blur", {"avatar", "banner"}),
      profile |-> Does("blur", {"avatar", "banner"}),
      content |-> Does("blur", {"contentMedia"}) ]
BlursButNames == [BlursAll EXCEPT !.account = Does("blur", Contexts \ {"displayName", "contentMedia"})]

Def(id, configurable, setting, flags, behaviors) ==
    [identifier |-> id, configurable |-> configurable, defaultSetting |-> setting,
     flags |-> flags, behaviors |-> behaviors]

KnownValues == {"!hide", "!warn", "!no-unauthenticated", "porn", "sexual", "nudity", "graphic-media", "gore"}
LABELS ==
    [l \in KnownValues |->
        CASE l = "!hide"  -> Def(l, FALSE, "hide", {"no-override", "no-self"}, BlursAll)
          [] l = "!warn"  -> Def(l, FALSE, "warn", {"no-self"}, BlursButNames)
          [] l = "!no-unauthenticated" -> Def(l, FALSE, "hide", {"no-override", "unauthed"}, BlursAll)
          [] l = "nudity" -> Def(l, TRUE, "ignore", {}, BlursMedia)
          [] l = "porn"   -> Def(l, TRUE, "hide", {"adult"}, BlursMedia)
          [] OTHER        -> Def(l, TRUE, "warn", {"adult"}, BlursMedia)]
===============================================================================
