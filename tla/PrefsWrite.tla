------------------------------ MODULE PrefsWrite ------------------------------
(***************************************************************************)
(* Preference calls in flight (sdk/src/actions/preferences.ts).  Every     *)
(* change is a cycle of three steps, read the list, apply a callback, put  *)
(* the list, and each client runs its cycles one at a time through a chain *)
(* of promises.  Other clients of the account (the app on another device)  *)
(* run their own chains against the same server.  getPreferences reads     *)
(* outside the chain; when it finds no v2 saved feeds it decides there and *)
(* then on a migration and sends it through the chain.                     *)
(***************************************************************************)
EXTENDS PrefsPromise

CONSTANTS Clients,
          Scenarios,    \* sequence of [start, script]: a stored list, and each client's calls in order
          MaxFaults     \* bound on requests that fail or lose their answer

Calls == UNION { ToSet(Scenarios[s].script[c]) : s \in DOMAIN Scenarios, c \in Clients }

ASSUME ScenariosAssumption ==
    /\ \A s \in DOMAIN Scenarios, c \in Clients : Scenarios[s].script[c] \in Seq(Calls)
    /\ \A s \in DOMAIN Scenarios : AllTyped(Scenarios[s].start)
    /\ \A op \in Calls :
          /\ "call" \in DOMAIN op
          /\ op.call \in {"getPreferences", "addMutedWords", "removeMutedWords"} \/ PrefsCall(op)
          /\ op.call \in {"addMutedWords", "removeMutedWords"} => IsList(op.words)

VARIABLES
    scenario,   \* which scenario is played
    issued,     \* issued[c]: how many calls of its script client c has made
    jobs,       \* jobs[c]: the cycles c has put on its chain, in order
    tail,       \* tail[c]: prefsWriteChains.get(c) as an index into jobs[c], 0 when absent
    gets,       \* gets[c]: the getPreferences calls of c
    stored,     \* the server's list
    writes,     \* number of puts the server has applied
    tids,       \* number of TIDs drawn so far
    faults

prefsVars == <<scenario, issued, jobs, tail, gets, stored, writes, tids, faults>>

\* What every step of a cycle or of a getPreferences call changes.
progress == << [c \in Clients |-> MapSeq(LAMBDA j : <<j.phase, j.cleaned>>, jobs[c])],
               [c \in Clients |-> MapSeq(LAMBDA g : g.phase, gets[c])] >>

\* Phases of a cycle: "queued" behind its predecessor, "read" its list, "written",
\* then "done" or "failed"; "late": given up by the client while the put is under way.
Settled == {"done", "failed", "late"}

PrefsInit ==
    /\ scenario \in DOMAIN Scenarios
    /\ stored = Scenarios[scenario].start
    /\ issued = [c \in Clients |-> 0]
    /\ jobs = [c \in Clients |-> <<>>]
    /\ tail = [c \in Clients |-> 0]
    /\ gets = [c \in Clients |-> <<>>]
    /\ writes = 0
    /\ tids = 100
    /\ faults = 0

Script(c) == Scenarios[scenario].script[c]

Job(op, prev) == [op |-> op, prev |-> prev, phase |-> "queued", cleaned |-> FALSE,
                  base |-> <<>>, seen |-> 0, landed |-> 0, migrates |-> FALSE]

\* serializedPrefsWrite: each cycle is chained to the tail and becomes the tail.
Chain(c, ops, migrates) ==
    LET n == Len(jobs[c])
        Prev(i) == IF i = 1 THEN tail[c] ELSE n + i - 1
    IN /\ jobs' = [jobs EXCEPT ![c] = @ \o
                    [i \in DOMAIN ops |-> [Job(ops[i], Prev(i)) EXCEPT !.migrates = migrates]]]
       /\ tail' = [tail EXCEPT ![c] = IF ops = <<>> THEN @ ELSE n + Len(ops)]

\* addSavedFeeds draws the new feeds' ids when it is called.
WithIds(op) ==
    IF op.call # "addSavedFeeds" THEN op
    ELSE [op EXCEPT !.feeds = [i \in DOMAIN op.feeds |-> [op.feeds[i] EXCEPT !.id = tids + i]]]

\* The cycles a call starts: one, one for each word of addMutedWords and
\* removeMutedWords (Promise.all), none when the word is empty once cleaned.
CyclesOf(op) ==
    LET PerWord(call) == MapSeq(LAMBDA w : [call |-> call, word |-> w], op.words)
        NotEmpty(o) == o.call = "addMutedWord" => SanitizeMutedWordValue(o.word.value) # <<>>
        cycles == CASE op.call = "addMutedWords"    -> PerWord("addMutedWord")
                    [] op.call = "removeMutedWords" -> PerWord("removeMutedWord")
                    [] OTHER                        -> <<WithIds(op)>>
    IN Keep(cycles, {i \in DOMAIN cycles : NotEmpty(cycles[i])})

Call(c) ==
    /\ issued[c] < Len(Script(c))
    /\ issued' = [issued EXCEPT ![c] = @ + 1]
    /\ LET op == Script(c)[issued[c] + 1]
       IN \/ /\ op.call = "getPreferences"
             /\ gets' = [gets EXCEPT ![c] = Append(@, [phase |-> "sent", base |-> <<>>, job |-> 0])]
             /\ UNCHANGED <<jobs, tail, tids>>
          \/ /\ op.call # "getPreferences"
             /\ Valid(WithIds(op))
             /\ Chain(c, CyclesOf(op), FALSE)
             /\ tids' = tids + (IF op.call = "addSavedFeeds" THEN Len(op.feeds) ELSE 0)
             /\ UNCHANGED gets
          \/ /\ op.call # "getPreferences"
             /\ ~Valid(WithIds(op))         \* the call rejects, nothing is sent
             /\ UNCHANGED <<jobs, tail, gets, tids>>
    /\ UNCHANGED <<scenario, stored, writes, faults>>

-----------------------------------------------------------------------------
(* A cycle.  prev.then(fn, fn): it runs whatever became of its predecessor. *)

\* Mutant: prev.then(fn) alone, a cycle behind a failed one never starts.
ReadyAfterSuccess(c, j) == jobs[c][j].prev # 0 => jobs[c][jobs[c][j].prev].phase = "done"

Ready(c, j) == jobs[c][j].prev # 0 => jobs[c][jobs[c][j].prev].phase \in Settled

Starts(c, j) == jobs[c][j].phase = "queued" /\ Ready(c, j)

SetJob(c, j, job) == jobs' = [jobs EXCEPT ![c][j] = job]

Read(c, j) ==
    /\ Starts(c, j)
    /\ SetJob(c, j, [jobs[c][j] EXCEPT !.phase = "read", !.base = stored, !.seen = writes])
    /\ UNCHANGED <<scenario, issued, tail, gets, stored, writes, tids, faults>>

Result(c, j) == Apply(jobs[c][j].op, jobs[c][j].base, tids + 1, writes + 1)

\* The TIDs a callback may draw: one for a new word, one for each legacy word.
Drawn(c, j) == IF jobs[c][j].op.call \in {"addMutedWord", "updateMutedWord", "removeMutedWord"}
               THEN 1 + Len(MutedWordItems(jobs[c][j].base)) ELSE 0

\* The callback answered false: the cycle ends without a put.
SkipWrite(c, j) ==
    /\ jobs[c][j].phase = "read"
    /\ Result(c, j) = None
    /\ SetJob(c, j, [jobs[c][j] EXCEPT !.phase = "done"])
    /\ UNCHANGED <<scenario, issued, tail, gets, stored, writes, tids, faults>>

Land(c, j, phase) ==
    /\ Result(c, j) # None
    /\ stored' = Result(c, j)
    /\ writes' = writes + 1
    /\ tids' = tids + Drawn(c, j)
    /\ SetJob(c, j, [jobs[c][j] EXCEPT !.phase = phase, !.landed = writes + 1])

Put(c, j) ==
    /\ jobs[c][j].phase = "read"
    /\ Land(c, j, "written")
    /\ UNCHANGED <<scenario, issued, tail, gets, faults>>

Answer(c, j) ==
    /\ jobs[c][j].phase = "written"
    /\ SetJob(c, j, [jobs[c][j] EXCEPT !.phase = "done"])
    /\ UNCHANGED <<scenario, issued, tail, gets, stored, writes, tids, faults>>

\* A read or a put that fails, or a put applied whose answer is lost.
Fail(c, j) ==
    /\ faults < MaxFaults
    /\ \/ Starts(c, j)
       \/ jobs[c][j].phase = "read" /\ Result(c, j) # None
       \/ jobs[c][j].phase = "written"
    /\ faults' = faults + 1
    /\ SetJob(c, j, [jobs[c][j] EXCEPT !.phase = "failed"])
    /\ UNCHANGED <<scenario, issued, tail, gets, stored, writes, tids>>

\* The connection drops while the put is on its way; the server may still apply it.
GiveUp(c, j) ==
    /\ faults < MaxFaults
    /\ jobs[c][j].phase = "read"
    /\ Result(c, j) # None
    /\ faults' = faults + 1
    /\ SetJob(c, j, [jobs[c][j] EXCEPT !.phase = "late"])
    /\ UNCHANGED <<scenario, issued, tail, gets, stored, writes, tids>>

LandLate(c, j) ==
    /\ jobs[c][j].phase = "late"
    /\ Land(c, j, "failed")
    /\ UNCHANGED <<scenario, issued, tail, gets, faults>>

\* Mutant: a settled cycle drops the chain whoever is its tail.
CleanupAlways(c, j) ==
    /\ jobs[c][j].phase \in Settled
    /\ ~jobs[c][j].cleaned
    /\ SetJob(c, j, [jobs[c][j] EXCEPT !.cleaned = TRUE])
    /\ tail' = [tail EXCEPT ![c] = 0]
    /\ UNCHANGED <<scenario, issued, gets, stored, writes, tids, faults>>

\* A settled cycle drops the chain unless another cycle is its tail by now.
Cleanup(c, j) ==
    /\ jobs[c][j].phase \in Settled
    /\ ~jobs[c][j].cleaned
    /\ SetJob(c, j, [jobs[c][j] EXCEPT !.cleaned = TRUE])
    /\ tail' = [tail EXCEPT ![c] = IF @ = j THEN 0 ELSE @]
    /\ UNCHANGED <<scenario, issued, gets, stored, writes, tids, faults>>

-----------------------------------------------------------------------------
(* getPreferences *)

SetGet(c, g, fields) == gets' = [gets EXCEPT ![c][g] = fields @@ @]

GetRead(c, g) ==
    /\ gets[c][g].phase = "sent"
    /\ SetGet(c, g, [phase |-> "decide", base |-> stored])
    /\ UNCHANGED <<scenario, issued, jobs, tail, stored, writes, tids, faults>>

GetFails(c, g) ==
    /\ gets[c][g].phase = "sent"
    /\ faults < MaxFaults
    /\ faults' = faults + 1
    /\ SetGet(c, g, [phase |-> "failed"])
    /\ UNCHANGED <<scenario, issued, jobs, tail, stored, writes, tids>>

GetReturns(c, g) ==
    /\ gets[c][g].phase = "decide"
    /\ ~NeedsMigration(gets[c][g].base)
    /\ SetGet(c, g, [phase |-> "done"])
    /\ UNCHANGED <<scenario, issued, jobs, tail, stored, writes, tids, faults>>

GetMigrates(c, g) ==
    /\ gets[c][g].phase = "decide"
    /\ NeedsMigration(gets[c][g].base)
    /\ LET feeds == MigratedFeeds(gets[c][g].base, tids)
       IN /\ Chain(c, <<[call |-> "overwriteSavedFeeds", feeds |-> feeds]>>, TRUE)
          /\ tids' = tids + Len(feeds)
    /\ SetGet(c, g, [phase |-> "waits", job |-> Len(jobs[c]) + 1])
    /\ UNCHANGED <<scenario, issued, stored, writes, faults>>

\* The call resolves or rejects with its migration.
GetSettles(c, g) ==
    /\ gets[c][g].phase = "waits"
    /\ jobs[c][gets[c][g].job].phase \in Settled
    /\ SetGet(c, g, [phase |-> IF jobs[c][gets[c][g].job].phase = "done" THEN "done" ELSE "failed"])
    /\ UNCHANGED <<scenario, issued, jobs, tail, stored, writes, tids, faults>>

-----------------------------------------------------------------------------
CycleStep(c, j) == Read(c, j) \/ SkipWrite(c, j) \/ Put(c, j) \/ Answer(c, j) \/ Cleanup(c, j)
GetStep(c, g) == GetRead(c, g) \/ GetReturns(c, g) \/ GetMigrates(c, g) \/ GetSettles(c, g)

PrefsStep ==
    \E c \in Clients :
        \/ \E j \in DOMAIN jobs[c] : CycleStep(c, j)
        \/ \E g \in DOMAIN gets[c] : GetStep(c, g)

PrefsNext ==
    \/ PrefsStep
    \/ \E c \in Clients :
        \/ Call(c)
        \/ \E j \in DOMAIN jobs[c] : Fail(c, j) \/ GiveUp(c, j) \/ LandLate(c, j)
        \/ \E g \in DOMAIN gets[c] : GetFails(c, g)

-----------------------------------------------------------------------------
\* A put the server applies in this step, by a cycle the client still runs or has given up.
Lands(c, j) == jobs[c][j].phase \in {"read", "late"} /\ jobs'[c][j].landed > jobs[c][j].landed
Skips(c, j) == jobs[c][j].phase = "read" /\ jobs'[c][j].phase = "done"

Object(prefs) == Interpret(prefs, V2Items(prefs))

\* Every call that writes (or decides it need not) turns the preferences it
\* read into the ones it promises: its own part changed as it says, no other
\* part touched, whatever old or partial objects the stored list holds.
OpsActAsDocumented ==
    [][\A c \in Clients : \A j \in DOMAIN jobs[c] :
         /\ Lands(c, j) => Promise(jobs[c][j].op, Object(jobs[c][j].base), Object(stored'))
         /\ Skips(c, j) => Promise(jobs[c][j].op, Object(jobs[c][j].base), Object(jobs[c][j].base))]_progress

\* In particular no action writes into another's part of the preferences.
OthersUntouched ==
    [][\A c \in Clients : \A j \in DOMAIN jobs[c] :
         Lands(c, j) => Untouched(jobs[c][j].op, Object(jobs[c][j].base), Object(stored'))]_progress

\* A change is in force when making it again would change nothing.
InForce(op, prefs) ==
    CASE op.call = "addSavedFeeds" -> Ids(op.feeds) \subseteq Ids(V2Items(prefs))
      [] op.call = "addMutedWord"  -> \E w \in ToSet(MutedWordItems(prefs)) :
                                          w.value = SanitizeMutedWordValue(op.word.value)
      [] OTHER -> LET again == Apply(op, prefs, 0, 0)
                  IN again = None \/ Object(again) = Object(prefs)

\* The serialization's point: a cycle the client still runs never discards a
\* change of the same client that reached the server after the cycle's read.
\* (A put the client has given up, and another client's, may: the next read
\* shows what they left.  A migration carries a decision older than its cycle,
\* and what it replaces is its saved feeds only.)
NoLostUpdate ==
    [][\A c \in Clients : \A j \in DOMAIN jobs[c] :
         (Lands(c, j) /\ jobs[c][j].phase = "read") =>
            \A o \in DOMAIN jobs[c] :
               (jobs[c][o].landed > jobs[c][j].seen /\ jobs[c][o].phase \in {"written", "done"}
                  /\ InForce(jobs[c][o].op, stored))
               => InForce(jobs[c][o].op, stored')]_progress

\* Every call made settles and every chain is dropped once it has drained, whatever
\* fails on the way.
CallsSettle ==
    <>[] \A c \in Clients :
            /\ \A j \in DOMAIN jobs[c] : jobs[c][j].phase \in Settled
            /\ \A g \in DOMAIN gets[c] : gets[c][g].phase \in {"done", "failed"}
            /\ tail[c] = 0

-----------------------------------------------------------------------------
(* The inductive invariant behind NoLostUpdate *)

JobFields == {"op", "prev", "phase", "cleaned", "base", "seen", "landed", "migrates"}
Phases == {"queued", "read", "written"} \cup Settled

PrefsTypeOK ==
    /\ writes \in Nat
    /\ issued \in [Clients -> Nat] /\ tail \in [Clients -> Nat]
    /\ jobs = [c \in Clients |-> jobs[c]]
    /\ \A c \in Clients :
        /\ jobs[c] \in Seq(ToSet(jobs[c]))
        /\ \A j \in DOMAIN jobs[c] :
            /\ jobs[c][j] = [f \in JobFields |-> jobs[c][j][f]]
            /\ jobs[c][j].phase \in Phases
            /\ jobs[c][j].prev \in Nat /\ jobs[c][j].seen \in Nat /\ jobs[c][j].landed \in Nat

SettledBefore(c, j) == \A i \in DOMAIN jobs[c] : i < j => jobs[c][i].phase \in Settled

\* A cycle waits for the one before it, or had nothing to wait for.
Chained ==
    \A c \in Clients :
        /\ tail[c] \in {0, Len(jobs[c])}
        /\ tail[c] = 0 => SettledBefore(c, Len(jobs[c]) + 1)
        /\ \A j \in DOMAIN jobs[c] :
            /\ jobs[c][j].prev \in {0, j - 1}
            /\ jobs[c][j].prev = 0 => SettledBefore(c, j)

\* The cycles of a client run one at a time, in order.
OneAtATime ==
    \A c \in Clients : \A j \in DOMAIN jobs[c] : jobs[c][j].phase # "queued" => SettledBefore(c, j)

\* So the list a cycle has read shows every change its client has made.
ReadIsCurrent ==
    \A c \in Clients : \A j, o \in DOMAIN jobs[c] :
        /\ jobs[c][o].landed <= writes
        /\ jobs[c][j].phase = "read" /\ jobs[c][o].phase \in {"written", "done"} =>
               jobs[c][o].landed <= jobs[c][j].seen

\* What is read and stored is always a list of typed objects, and what is to be
\* done to it a known call.
ListsAreTyped ==
    /\ AllTyped(stored)
    /\ \A c \in Clients : \A j \in DOMAIN jobs[c] : AllTyped(jobs[c][j].base) /\ PrefsCall(jobs[c][j].op)

PrefsInv == PrefsTypeOK /\ Chained /\ OneAtATime /\ ReadIsCurrent

\* Requests are answered, one way or another, and promise callbacks run.
PrefsFairness == WF_progress(PrefsStep)
===============================================================================
