------------------------------ MODULE ProfileUpsert ------------------------------
(***************************************************************************)
(* Concurrent upsertProfile calls (sdk/src/actions/records.ts): read the   *)
(* profile, let the caller update it, put it back if the profile is still  *)
(* the one read, and start over when it is not.                            *)
(***************************************************************************)
EXTENDS SdkValues, Integers

CONSTANTS Callers,
          MaxOthers,        \* bound on writes of the profile by other software
          MaxLosses         \* bound on reads and puts that fail or lose their answer

VARIABLES
    profile,    \* the server's record, None when there is none
    upserts,    \* upserts[c]: the call of caller c
    others, losses

profileVars == <<profile, upserts, others, losses>>

MAX_RETRIES == 5

\* A record holds the changes made to it.  Its cid is a digest of its content, so two
\* records have the same cid when they are equal.  "valid": it matches the lexicon.
Record(changes, valid) == [changes |-> changes, valid |-> valid]

ProfileInit ==
    /\ profile \in {None, Record({"other"}, TRUE), Record({"other"}, FALSE)}
    /\ upserts = [c \in Callers |-> [phase |-> "get", attempt |-> 0, existing |-> None,
                                     updated |-> None]]
    /\ others = 0
    /\ losses = 0

SetUpsert(c, call) == upserts' = [upserts EXCEPT ![c] = call]

\* client.get().catch(() => undefined): no record, a record the client does not
\* accept, and a request that fails all read as nothing.
Get(c) ==
    /\ upserts[c].phase = "get"
    /\ \/ /\ SetUpsert(c, [upserts[c] EXCEPT !.phase = "update", !.existing = profile])
          /\ UNCHANGED losses
       \/ /\ profile # None
          /\ profile.valid => losses < MaxLosses
          /\ losses' = IF profile.valid THEN losses + 1 ELSE losses
          /\ SetUpsert(c, [upserts[c] EXCEPT !.phase = "update", !.existing = None])
    /\ UNCHANGED <<profile, others>>

\* updateFn is given the record only if it validates; each caller keeps what it is
\* given and adds its own change.
ExistingRecord(c) ==
    IF upserts[c].existing # None /\ upserts[c].existing.valid
    THEN upserts[c].existing.changes ELSE {}

Update(c) ==
    /\ upserts[c].phase = "update"
    /\ SetUpsert(c, [upserts[c] EXCEPT !.phase = "put",
                                       !.updated = Record(ExistingRecord(c) \cup {c}, TRUE)])
    /\ UNCHANGED <<profile, others, losses>>

\* updateFn throws, or returns what profile.check rejects: nothing is put.
UpdateThrows(c) ==
    /\ upserts[c].phase = "update"
    /\ losses < MaxLosses
    /\ losses' = losses + 1
    /\ SetUpsert(c, [upserts[c] EXCEPT !.phase = "failed"])
    /\ UNCHANGED <<profile, others>>

\* Mutant: the put names no cid.
SwapOmitted(c) == upserts[c].phase = "put"

\* swapRecord: existing?.cid; without one the server does not compare.
SwapHolds(c) == upserts[c].existing # None => upserts[c].existing = profile

Put_(c) ==
    /\ upserts[c].phase = "put"
    /\ SwapHolds(c)
    /\ profile' = upserts[c].updated
    /\ \/ SetUpsert(c, [upserts[c] EXCEPT !.phase = "done"]) /\ UNCHANGED losses
       \/ /\ losses < MaxLosses                     \* applied, the answer lost: the call throws
          /\ losses' = losses + 1
          /\ SetUpsert(c, [upserts[c] EXCEPT !.phase = "failed"])
    /\ UNCHANGED others

InvalidSwap(c) ==
    /\ upserts[c].phase = "put"
    /\ ~SwapHolds(c)
    /\ SetUpsert(c, IF upserts[c].attempt = MAX_RETRIES - 1
                    THEN [upserts[c] EXCEPT !.phase = "failed"]
                    ELSE [upserts[c] EXCEPT !.phase = "get", !.attempt = @ + 1])
    /\ UNCHANGED <<profile, others, losses>>

\* Any other error is thrown at once.
PutFails(c) ==
    /\ upserts[c].phase = "put"
    /\ losses < MaxLosses
    /\ losses' = losses + 1
    /\ SetUpsert(c, [upserts[c] EXCEPT !.phase = "failed"])
    /\ UNCHANGED <<profile, others>>

\* Other software writes or deletes the profile.
OtherWrites ==
    /\ others < MaxOthers
    /\ others' = others + 1
    /\ profile' \in {None} \cup (IF profile = None THEN {Record({"other"}, TRUE)}
                                 ELSE { Record(profile.changes \cup {"other"}, TRUE),
                                        Record({"other"}, TRUE), Record({"other"}, FALSE) })
    /\ UNCHANGED <<upserts, losses>>

ProfileNext ==
    \/ OtherWrites
    \/ \E c \in Callers : \/ Get(c) \/ Update(c) \/ UpdateThrows(c)
                          \/ Put_(c) \/ InvalidSwap(c) \/ PutFails(c)

ProfileSpec == ProfileInit /\ [][ProfileNext]_profileVars

-----------------------------------------------------------------------------
Landed(c) == upserts[c].phase = "put" /\ profile' # profile /\ upserts' # upserts
             /\ upserts'[c].phase \in {"done", "failed"}

\* A put whose call read a valid profile discards nothing: whatever was written
\* since that read, by another call or by other software, makes it start over.
ProfileSwapHonoured ==
    [][\A c \in Callers :
         (Landed(c) /\ upserts[c].existing # None /\ profile # None /\ profile.valid)
            => profile.changes \subseteq profile'.changes]_profileVars

\* The inductive invariant: what a call puts is what it read, with its own change.
CallFields == {"phase", "attempt", "existing", "updated"}
ProfileInv ==
    /\ upserts = [c \in Callers |-> upserts[c]]
    /\ \A c \in Callers :
        /\ upserts[c] = [f \in CallFields |-> upserts[c][f]]
        /\ upserts[c].phase = "put" => upserts[c].updated = Record(ExistingRecord(c) \cup {c}, TRUE)

==================================================================================
