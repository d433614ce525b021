------------------------------ MODULE BlockSource ------------------------------
(****************************************************************************)
(* blockSource (engine/block-source.ts): the generator that yields the      *)
(* frames of a plan's downloads in plan order, while the next downloads are *)
(* already running.  The main loop drains the head of a window of Prefetch  *)
(* objects; each has a pump that reads its download (SegmentStream) into a  *)
(* buffer up to a byte limit.  Pump and drain wait on one latch with a      *)
(* single slot.  The window is the downloads head..next-1.                  *)
(****************************************************************************)
EXTENDS SegmentStream

CONSTANTS
    OutstandingHwm, TailHwm,    \* byte limits of a first head and of the others
    MaxBlocks                   \* opts.blockConcurrency

ASSUME LimitsAssumption ==
    OutstandingHwm \in Nat \ {0} /\ TailHwm \in Nat \ {0} /\ MaxBlocks \in Nat \ {0}

VARIABLES
    aborted,        \* signal.aborted
    main,           \* the generator: "new", "step" (runs), "wait" (drain awaits),
                    \* "yielded", "settle" and "settleWait" (drainAll), "done"
    outcome,        \* how it will end: "ok", "returned" or "threw"
    head, next,
    pump,           \* of a download: "none", "read", "parked", "woken", "done"
    err,            \* its download errored
    buf,            \* the frames it has buffered, by their index
    limit,          \* limitBytes
    wake,           \* who waits on its latch: "nobody", "pump" or "drain"
    out             \* ghost: the frames yielded, <<download, index>>

readerVars == <<main, outcome, head, next, out>>
fetchVars  == <<pump, err, buf, limit, wake>>
vars == <<transferVars, aborted, readerVars, fetchVars>>

Window   == head..(next - 1)
Bytes(d, b) ==
    IF b = <<>> THEN 0
    ELSE FrameEnd(d, Last(b)) - FrameEnd(d, Head(b) - 1)
Parks(d, b) == Bytes(d, b) >= limit[d] /\ ~aborted

Init ==
    /\ TransferInit
    /\ aborted \in BOOLEAN
    /\ main = "new" /\ outcome = "ok" /\ head = 1 /\ next = 1 /\ out = <<>>
    /\ pump = [d \in Downloads |-> "none"]
    /\ err = [d \in Downloads |-> FALSE]
    /\ buf = [d \in Downloads |-> <<>>]
    /\ limit = [d \in Downloads |-> 0]
    /\ wake = [d \in Downloads |-> "nobody"]

Abort ==
    /\ ~aborted /\ main # "done"
    /\ aborted' = TRUE
    /\ UNCHANGED <<transferVars, readerVars, fetchVars>>

-------------------------------------------------------------------------------
(* The pumps *)

(* #notify, as the pump's side of it finds it: a drain that waits goes on.  *)
DrainAfterNotify(d) ==
    main' = IF wake[d] # "drain" THEN main
            ELSE IF main = "wait" THEN "step" ELSE "settle"

(* A chunk arrives.  If it completes a frame, the pump buffers it, wakes    *)
(* the drain, and parks when the buffer is full.                            *)
PumpReads(d) ==
    /\ pump[d] = "read" /\ ~AllRead(d) /\ Chunk(d)
    /\ IF FramesRead(d)' = FramesRead(d)
       THEN UNCHANGED <<main, pump, buf, wake>>
       ELSE /\ buf' = [buf EXCEPT ![d] = Append(@, FramesRead(d)')]
            /\ DrainAfterNotify(d)
            /\ LET parks == Parks(d, buf'[d]) IN
               /\ pump' = [pump EXCEPT ![d] = IF parks THEN "parked" ELSE @]
               /\ wake' = [wake EXCEPT ![d] = IF parks THEN "pump" ELSE "nobody"]
    /\ UNCHANGED <<aborted, outcome, head, next, out, err, limit>>

(* The pump's wait is over: it looks at its buffer again. *)
PumpWakes(d) ==
    /\ pump[d] = "woken"
    /\ LET parks == Parks(d, buf[d]) IN
       /\ pump' = [pump EXCEPT ![d] = IF parks THEN "parked" ELSE "read"]
       /\ wake' = [wake EXCEPT ![d] = IF parks THEN "pump" ELSE @]
    /\ UNCHANGED <<transferVars, aborted, readerVars, err, buf, limit>>

(* The pump's stream goes on in the background; a request is not made again *)
(* after an abort.                                                          *)
PumpFetches(d) ==
    /\ pump[d] = "read" /\ ~AllRead(d) /\ ~aborted
    /\ Respond(d) \/ Retry(d)
    /\ UNCHANGED <<aborted, readerVars, fetchVars>>

(* The stream is read to its end, or it errors: the pump is done. *)
PumpEnds(d) ==
    /\ pump[d] = "read"
    /\ \/ Complete(d) /\ err' = err
       \/ ~AllRead(d) /\ Fail(d) /\ err' = [err EXCEPT ![d] = TRUE]
    /\ pump' = [pump EXCEPT ![d] = "done"]
    /\ wake' = [wake EXCEPT ![d] = "nobody"]
    /\ DrainAfterNotify(d)
    /\ UNCHANGED <<aborted, outcome, head, next, out, buf, limit>>

Pump(d) == PumpReads(d) \/ PumpWakes(d) \/ PumpFetches(d) \/ PumpEnds(d)

-------------------------------------------------------------------------------
(* The window *)

Count(kind, W) == Cardinality({d \in W : Plan[d].kind = kind})

(* Mutant: the kinds are not counted apart. *)
WithinTotal(W) == Cardinality(W) <= MaxBlocks + 1

(* The budgets of the downloads in flight. *)
Budgeted(W) == Count("segment", W) <= 1 /\ Count("block", W) <= MaxBlocks

(* fill(): launch the downloads from n on that the budgets admit, into the  *)
(* window that begins at h.                                                 *)
Fill(h, n) ==
    LET upTo == Max({m \in n..(Len(Plan) + 1) : Budgeted(h..(m - 1))})
        launched == n..(upTo - 1)
    IN  /\ head' = h /\ next' = upTo
        /\ pump' = [d \in Downloads |-> IF d \in launched THEN "read" ELSE pump[d]]
        /\ limit' = [d \in Downloads |->
                        IF d \in launched
                        THEN IF d = h THEN OutstandingHwm ELSE TailHwm
                        ELSE limit[d]]

-------------------------------------------------------------------------------
(* The generator *)

(* The first next(): nothing is fetched before. *)
Start ==
    /\ main = "new"
    /\ IF aborted \/ Plan = <<>>
       THEN main' = "done" /\ outcome' = (IF aborted THEN "returned" ELSE "ok")
            /\ UNCHANGED <<head, next, pump, limit>>
       ELSE main' = "step" /\ outcome' = outcome /\ Fill(1, 1)
    /\ UNCHANGED <<transferVars, aborted, out, err, buf, wake>>

(* Mutant: room is made, and the pump is not told. *)
ShiftSilently(d) ==
    /\ buf[d] # <<>>
    /\ buf' = [buf EXCEPT ![d] = Tail(@)]
    /\ UNCHANGED <<pump, err, limit, wake>>

(* drain() takes a frame and wakes a parked pump. *)
Shift(d) ==
    /\ buf[d] # <<>>
    /\ buf' = [buf EXCEPT ![d] = Tail(@)]
    /\ pump' = [pump EXCEPT ![d] = IF wake[d] = "pump" THEN "woken" ELSE @]
    /\ wake' = [wake EXCEPT ![d] = "nobody"]
    /\ UNCHANGED <<err, limit>>

(* A frame of the head is yielded, or dropped when the caller has aborted. *)
Yield ==
    /\ main = "step" /\ Shift(head)
    /\ IF aborted
       THEN main' = "settle" /\ outcome' = "returned" /\ out' = out
       ELSE main' = "yielded" /\ outcome' = outcome
            /\ out' = Append(out, <<head, Head(buf[head])>>)
    /\ UNCHANGED <<transferVars, aborted, head, next>>

(* drain() has nothing to take yet. *)
Await ==
    /\ main \in {"step", "settle"} /\ head < next
    /\ buf[head] = <<>> /\ pump[head] # "done"
    /\ wake' = [wake EXCEPT ![head] = "drain"]
    /\ main' = IF main = "step" THEN "wait" ELSE "settleWait"
    /\ UNCHANGED <<transferVars, aborted, outcome, head, next, out, pump, err, buf, limit>>

(* Mutant: an error of the head is seen before the frames it follows. *)
HeadFailsAtOnce ==
    /\ main = "step" /\ pump[head] = "done" /\ err[head]
    /\ head' = head + 1
    /\ main' = "settle" /\ outcome' = "threw"
    /\ UNCHANGED <<transferVars, aborted, next, out, fetchVars>>

(* The head errored, after its frames: it is dropped and the error thrown,  *)
(* once the tails have settled.                                             *)
HeadFails ==
    /\ main = "step" /\ buf[head] = <<>> /\ pump[head] = "done" /\ err[head]
    /\ head' = head + 1
    /\ main' = "settle" /\ outcome' = "threw"
    /\ UNCHANGED <<transferVars, aborted, next, out, fetchVars>>

(* The head is exhausted: the next download is promoted, the window filled, *)
(* and the abort looked at.  With an empty window the plan is done.         *)
HeadEnds ==
    /\ main = "step" /\ buf[head] = <<>> /\ pump[head] = "done" /\ ~err[head]
    /\ Fill(head + 1, next)
    /\ LET returns == aborted /\ next' > head' IN
       /\ main' = IF returns \/ next' = head' THEN "settle" ELSE "step"
       /\ outcome' = IF returns THEN "returned" ELSE outcome
    /\ UNCHANGED <<transferVars, aborted, out, err, buf, wake>>

(* The consumer asks for the next frame, or leaves. *)
Ask ==
    /\ main = "yielded"
    /\ main' = "step"
    /\ UNCHANGED <<transferVars, aborted, outcome, head, next, out, fetchVars>>

Leave ==
    /\ main = "yielded"
    /\ main' = "settle" /\ outcome' = "returned"
    /\ UNCHANGED <<transferVars, aborted, head, next, out, fetchVars>>

(* drainAll: each prefetch of the window is drained without yielding, its   *)
(* error swallowed.                                                         *)
Discard ==
    /\ main = "settle" /\ head < next /\ Shift(head)
    /\ UNCHANGED <<transferVars, aborted, main, outcome, head, next, out>>

Settled ==
    /\ main = "settle" /\ head < next
    /\ buf[head] = <<>> /\ pump[head] = "done"
    /\ head' = head + 1
    /\ UNCHANGED <<transferVars, aborted, main, outcome, next, out, fetchVars>>

(* Mutant: only the head is settled. *)
FinishEarly ==
    /\ main = "settle" /\ (head < next => pump[head] = "done")
    /\ main' = "done"
    /\ UNCHANGED <<transferVars, aborted, outcome, head, next, out, fetchVars>>

Finish ==
    /\ main = "settle" /\ head = next
    /\ main' = "done"
    /\ UNCHANGED <<transferVars, aborted, outcome, head, next, out, fetchVars>>

Reader == Start \/ Yield \/ Await \/ HeadFails \/ HeadEnds \/ Discard \/ Settled \/ Finish

(* The server's rewrites. *)
Server == Rewrite /\ UNCHANGED <<aborted, readerVars, fetchVars>>

Next ==
    \/ Abort \/ Server
    \/ \E d \in Downloads : Pump(d)
    \/ Reader \/ Ask \/ Leave

Spec == Init /\ [][Next]_vars

(* The generator and the pumps run when they can: every request is answered *)
(* or fails.  The consumer asks or leaves.                                  *)
FairSpec ==
    /\ Spec
    /\ WF_vars(Reader) /\ WF_vars(Ask \/ Leave)
    /\ \A d \in Downloads : WF_vars(Pump(d))

-------------------------------------------------------------------------------
(* "frames are emitted in strict seq order with no reorder buffer", and an  *)
(* error "propagates in-order, after earlier frames": whatever order the    *)
(* downloads make progress in, what was yielded is a prefix of the plan's   *)
(* frames; all of it when the generator ends well; and when it throws,      *)
(* everything up to the frame its download failed at.                       *)
Frames == UNION {{d} \X (1..FrameCount(d)) : d \in Downloads}
FrameAfter(f) == IF f[2] < FrameCount(f[1]) THEN <<f[1], f[2] + 1>> ELSE <<f[1] + 1, 1>>

(* The last frame yielded is the n-th of d, all those before it included.   *)
EndsAt(d, n) ==
    IF n > 0 THEN out # <<>> /\ Last(out) = <<d, n>>
    ELSE IF d = 1 THEN out = <<>>
    ELSE out # <<>> /\ Last(out) = <<d - 1, FrameCount(d - 1)>>

InPlanOrder ==
    /\ \A k \in DOMAIN out :
        out[k] \in Frames /\ out[k] = IF k = 1 THEN <<1, 1>> ELSE FrameAfter(out[k - 1])
    /\ main = "done" /\ outcome = "ok" => EndsAt(Len(Plan) + 1, 0)
    /\ outcome = "threw" => \E d \in 1..(next - 1) : err[d] /\ EndsAt(d, FramesRead(d))

(* "At most 1 segment and at most blockConcurrency blocks are in flight",   *)
(* in every order of completion, and a pump reads ahead by no more than one *)
(* frame over its limit.  After an abort the pumps no longer stop at it.    *)
LargestFrame(d) == Max({FrameEnd(d, i) - FrameEnd(d, i - 1) : i \in 1..FrameCount(d)})
WithinBudgets ==
    /\ LET inFlight == {d \in Downloads : pump[d] \notin {"none", "done"}} IN
       Count("segment", inFlight) <= 1 /\ Count("block", inFlight) <= MaxBlocks
    /\ ~aborted => \A d \in Downloads : buf[d] # <<>> => Bytes(d, buf[d]) < limit[d] + LargestFrame(d)

(* "no pump promise is left": on every exit, by completion, abort, error or *)
(* the consumer's leaving, every download that was launched has ended.      *)
NothingLeaks == main = "done" => \A d \in Downloads : pump[d] \in {"none", "done"}

(* Liveness: no wake-up is lost between a pump and the drain, so the source *)
(* ends, though a pump may be parked at its limit when the caller aborts or *)
(* leaves.                                                                  *)
SourceSettles == <>(main = "done")

-------------------------------------------------------------------------------
(* The inductive invariant *)

Running == {"step", "wait", "yielded"}

TypeOK ==
    /\ aborted \in BOOLEAN
    /\ main \in {"new", "settle", "settleWait", "done"} \union Running
    /\ outcome \in {"ok", "returned", "threw"}
    /\ head \in 1..(Len(Plan) + 1) /\ next \in 1..(Len(Plan) + 1)
    /\ pump \in [Downloads -> {"none", "read", "parked", "woken", "done"}]
    /\ err \in [Downloads -> BOOLEAN]
    /\ buf \in [Downloads -> Seq(Nat \ {0})]
    /\ limit \in [Downloads -> {0, OutstandingHwm, TailHwm}]
    /\ wake \in [Downloads -> {"nobody", "pump", "drain"}]
    /\ out \in Seq(Frames)

(* The window keeps its budgets; what is before it has ended, what is after *)
(* it was not launched.                                                     *)
WindowIsBudgeted == head <= next /\ Budgeted(Window)

LaunchedInOrder ==
    \A d \in Downloads :
        /\ d < head => pump[d] = "done"
        /\ d < next => limit[d] # 0 /\ pump[d] # "none"
        /\ d >= next => pump[d] = "none" /\ recv[d] = <<>> /\ buf[d] = <<>>

(* The generator holds a head until it settles, and ends with the window    *)
(* empty.                                                                   *)
HeadIsHeld ==
    /\ main = "new" => next = 1
    /\ main \in Running \union {"settleWait"} => head < next
    /\ main = "done" => head = next
    /\ main \in Running \union {"new"} => outcome = "ok"

(* A download that ended was read to its end, or errored. *)
EndedIsRead ==
    \A d \in Downloads :
        /\ pump[d] = "done" /\ ~err[d] => AllRead(d)
        /\ err[d] => pump[d] = "done"

(* The buffer holds the last frames that were read. *)
Taken(d) == FramesRead(d) - Len(buf[d])
BufferIsTail ==
    \A d \in Downloads :
        /\ Len(buf[d]) <= FramesRead(d)
        /\ \A k \in DOMAIN buf[d] : buf[d][k] = Taken(d) + k

BufferIsBounded ==
    ~aborted => \A d \in Downloads :
        /\ buf[d] # <<>> => Bytes(d, buf[d]) < limit[d] + LargestFrame(d)
        /\ pump[d] = "read" => Bytes(d, buf[d]) < limit[d]

(* Who waits on a latch is who its slot says, so no wake-up is lost; and    *)
(* pump and drain never wait for each other.                                *)
NoLostWakeup ==
    \A d \in Downloads :
        /\ wake[d] = "drain" <=> d = head /\ main \in {"wait", "settleWait"}
        /\ wake[d] = "pump" <=> pump[d] = "parked"
        /\ wake[d] = "drain" => buf[d] = <<>> /\ pump[d] # "done"
        /\ pump[d] = "parked" => buf[d] # <<>>

(* What was yielded: the head's frames up to those in its buffer.           *)
YieldedSoFar ==
    /\ main = "new" => out = <<>>
    /\ main \in Running =>
        /\ EndsAt(head, Taken(head))
        /\ \A d \in Downloads : d > head => Taken(d) = 0
    /\ main \notin Running \union {"new"} /\ outcome = "ok" => EndsAt(Len(Plan) + 1, 0)

IInv ==
    /\ TransferInv /\ TypeOK
    /\ WindowIsBudgeted /\ LaunchedInOrder /\ HeadIsHeld /\ EndedIsRead
    /\ BufferIsTail /\ BufferIsBounded /\ NoLostWakeup /\ YieldedSoFar
    /\ InPlanOrder
==============================================================================
