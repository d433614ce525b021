------------------------------ MODULE MCRichText ------------------------------
(***************************************************************************)
(* Texts for RichText: a facet given, facets from the old entities with an *)
(* emoji before them, newlines to clean inside and around facets, and two  *)
(* mentions to detect.                                                     *)
(***************************************************************************)
EXTENDS RichText

From0(text, facets, clean) ==
    [text |-> text, facets |-> facets, entities |-> <<>>, cleanNewlines |-> clean]
Entity(type, start, end) == [type |-> type, start |-> start, end |-> end]

MCSources ==
    { From0(<<"letter", "letter", "letter", "letter">>, << <<1, 3>> >>, FALSE),
      From0(<<"mention", "space", "mention">>, None, FALSE),
      From0(<<"letter", "newline", "space", "newline", "zeroWidth", "newline", "letter", "newline">>,
            << <<6, 9>>, <<0, 3>>, <<9, 2>> >>, TRUE),
      From0(<<"newline", "newline", "newline", "letter", "newline", "newline", "newline", "newline">>,
            << <<3, 4>>, <<2, 7>>, <<0, 1>> >>, TRUE),
      [text |-> <<"emoji", "letter", "letter", "space", "letter">>, facets |-> None,
       entities |-> << Entity("link", 2, 4), Entity("mention", 5, 6), Entity("tag", 0, 2) >>,
       cleanNewlines |-> FALSE] }

MCInserts == { <<"letter">>, <<"space", "newline">>, <<"emoji">> }
===============================================================================
