------------------------------- MODULE LiveTail -------------------------------
(****************************************************************************)
(* The live stream: liveEvents (live/source.ts) over a transport that       *)
(* redials (live/transport.ts).  The subscription starts at a cursor, every *)
(* redial asks for the highest delivered seq, and what arrives at or below  *)
(* it is dropped.  The server is modelled from the wire contract the code   *)
(* states: events have increasing seqs, a seq cursor is inclusive, no       *)
(* cursor means from the tip, a cursor at or past the threshold is a        *)
(* timestamp, and a seq cursor below retention is refused.                  *)
(****************************************************************************)
EXTENDS Integers, FiniteSetsExt, Functions, Sequences

CONSTANTS
    MaxSeq,         \* the server appends seqs 1..MaxSeq
    Wanted,         \* the seqs the wire filters (kinds, dids, collections) let through
    Threshold,      \* V2_CURSOR_SEQ_MAX_THRESHOLD; Threshold + s is the time of seq s
    Starts,         \* the cursors a subscription may start from
    HeadAtStart,    \* seqs the server has when the subscription starts
    Strict,         \* validateWire
    MaxDrops,       \* how many times a connection may be lost
    MaxBad          \* how many frames may be malformed

None == -1          \* the code's undefined

ASSUME BoundsAssumption ==
    /\ MaxSeq \in Nat /\ Wanted \subseteq 1..MaxSeq
    /\ Threshold \in Nat /\ Threshold > MaxSeq
    /\ Starts \subseteq {None} \union (0..MaxSeq) \union (Threshold..Threshold + MaxSeq)
    /\ HeadAtStart \in 0..MaxSeq
    /\ Strict \in BOOLEAN /\ MaxDrops \in Nat /\ MaxBad \in Nat

VARIABLES
    head,           \* the server's last seq
    low,            \* the lowest seq the server still retains
    conn,           \* the transport: "down", "open", "refused", "fatal" or "ended"
    send,           \* the lowest seq the server has not yet offered on this connection
    cursor,         \* opts.cursor
    lastSeq,        \* the highest delivered seq: reconnect cursor and dedup floor
    drops,          \* connections lost so far
    out,            \* ghost: the seqs delivered to the consumer, in order
    bad,            \* ghost: seqs of malformed frames, reported and skipped
    owed            \* ghost: the consumer is owed every wanted seq above this

server == <<head, low>>
vars == <<head, low, conn, send, cursor, lastSeq, drops, out, bad, owed>>

TypeOK ==
    /\ head \in 0..MaxSeq /\ low \in 1..(MaxSeq + 1)
    /\ conn \in {"down", "open", "refused", "fatal", "ended"}
    /\ send \in 0..(MaxSeq + 1)
    /\ cursor \in {None} \union Nat /\ lastSeq \in {None} \union 0..MaxSeq
    /\ drops \in 0..MaxDrops
    /\ out \in Seq(Wanted) /\ bad \subseteq Wanted
    /\ owed \in {None} \union 0..MaxSeq

IsTimestamp(c) == c >= Threshold

(* Mutant: a timestamp is a dedup floor like any cursor. *)
FloorFromAny(dedupFloor) == dedupFloor

(* The dedup floor a subscription starts with: a timestamp never seeds it.  *)
FloorFrom(dedupFloor) == IF IsTimestamp(dedupFloor) THEN None ELSE dedupFloor

(* rawBatchStream: the stored cursor is both wire cursor and dedup floor.   *)
Init ==
    /\ head = HeadAtStart /\ low = 1
    /\ conn = "down" /\ send = 0
    /\ cursor \in Starts
    /\ lastSeq = FloorFrom(cursor)
    /\ drops = 0 /\ out = <<>> /\ bad = {}
    /\ owed = IF cursor = None \/ IsTimestamp(cursor) THEN None ELSE cursor

-------------------------------------------------------------------------------
(* The server *)

AppendSeq ==
    /\ head < MaxSeq
    /\ head' = head + 1
    /\ UNCHANGED <<low, conn, send, cursor, lastSeq, drops, out, bad, owed>>

Expire ==
    /\ low <= head
    /\ low' = low + 1
    /\ UNCHANGED <<head, conn, send, cursor, lastSeq, drops, out, bad, owed>>

(* Where the server starts sending for a wire cursor it accepts.            *)
FirstFor(wire) ==
    IF wire = None THEN head + 1
    ELSE IF IsTimestamp(wire) THEN Max({wire - Threshold, low})
    ELSE Max({wire, low})

Refuses(wire) == wire # None /\ ~IsTimestamp(wire) /\ wire + 1 < low

-------------------------------------------------------------------------------
(* Mutant: a redial names no cursor. *)
WireCursorOnce == IF out = <<>> THEN cursor ELSE None

(* getUrl(): the highest delivered seq once there is one, else the initial  *)
(* cursor.                                                                  *)
WireCursor == IF lastSeq # None THEN lastSeq ELSE cursor

(* A dial: refused for good with a 400, or accepted.  (A 5xx refusal        *)
(* redials and changes nothing.)  The first accepted dial, and a timestamp  *)
(* dial the server clamps (it says so), set what the consumer is owed.      *)
Connect ==
    /\ conn = "down"
    /\ IF Refuses(WireCursor)
       THEN conn' = "refused" /\ UNCHANGED <<send, owed>>
       ELSE /\ conn' = "open"
            /\ send' = FirstFor(WireCursor)
            /\ owed' = IF owed = None \/ IsTimestamp(WireCursor)
                       THEN FirstFor(WireCursor) - 1 ELSE owed
    /\ UNCHANGED <<head, low, cursor, lastSeq, drops, out, bad>>

(* The next frame of the open connection. *)
Pending == {s \in Wanted : send <= s /\ s <= head}

Frame(s) ==
    /\ conn = "open"
    /\ Pending # {} /\ s = Min(Pending)
    /\ send' = s + 1

(* Mutant: the floor itself passes. *)
IsBelowFloor(s) == lastSeq # None /\ s < lastSeq

IsDuplicate(s) == lastSeq # None /\ s <= lastSeq

(* A well-formed frame is yielded unless it is at or below the floor.       *)
Deliver(s) ==
    /\ Frame(s)
    /\ IF IsDuplicate(s)
       THEN UNCHANGED <<lastSeq, out>>
       ELSE lastSeq' = s /\ out' = Append(out, s)
    /\ UNCHANGED <<head, low, conn, cursor, drops, bad, owed>>

(* A malformed frame is fatal under validateWire, else reported and skipped. *)
Malformed(s) ==
    /\ Cardinality(bad) < MaxBad
    /\ Frame(s)
    /\ conn' = IF Strict THEN "fatal" ELSE conn
    /\ bad' = bad \union {s}
    /\ UNCHANGED <<head, low, cursor, lastSeq, drops, out, owed>>

(* The connection is lost, closes cleanly or goes idle: the transport redials. *)
Drop ==
    /\ conn = "open" /\ drops < MaxDrops
    /\ conn' = "down" /\ drops' = drops + 1
    /\ UNCHANGED <<head, low, send, cursor, lastSeq, out, bad, owed>>

(* A close the transport does not redial, or the caller's abort. *)
Stop ==
    /\ conn \in {"down", "open"}
    /\ conn' \in {"fatal", "ended"}
    /\ UNCHANGED <<head, low, send, cursor, lastSeq, drops, out, bad, owed>>

Client ==
    \/ Connect
    \/ \E s \in Wanted : Deliver(s) \/ Malformed(s)
    \/ Drop
    \/ Stop

Server == AppendSeq \/ Expire

Next == Server \/ Client

Spec == Init /\ [][Next]_vars

(* The transport dials and the connection delivers; drops are bounded.      *)
FairSpec == Spec /\ WF_vars(Connect) /\ \A s \in Wanted : WF_vars(Deliver(s) \/ Malformed(s))

-------------------------------------------------------------------------------
Over == conn \in {"refused", "fatal", "ended"}

(* "resumes from its cursor, so no events are lost ... across reconnects"   *)
(* (README): below the highest delivered seq, every wanted event the        *)
(* consumer is owed was delivered, or reported as malformed.                *)
NoLoss ==
    \A w \in Wanted :
        owed # None /\ owed < w /\ (\E s \in Range(out) : w < s) => w \in Range(out) \union bad

(* "... or duplicated": seqs are delivered in strictly increasing order     *)
(* over any number of inclusive resumes.                                    *)
Ascending == \A i, j \in DOMAIN out : i < j => out[i] < out[j]

(* Liveness: every owed event is delivered or reported, unless the stream   *)
(* is over.                                                                 *)
EverythingArrives ==
    \A w \in Wanted :
        (owed # None /\ owed < w /\ w <= head) ~> (w \in Range(out) \union bad \/ w <= owed \/ Over)

-------------------------------------------------------------------------------
(* The inductive invariant (LiveTail_proofs): why the properties hold.       *)
(* What was delivered is at or below the floor; a subscription without a     *)
(* floor has no seq to name, or one below which nothing is owed.             *)
FloorIsHighest ==
    /\ \A i \in DOMAIN out : lastSeq # None /\ out[i] <= lastSeq
    /\ lastSeq = None =>
          \/ cursor = None \/ IsTimestamp(cursor)
          \/ owed # None /\ cursor <= owed

OwedSinceAccepted == owed = None => lastSeq = None /\ conn # "open"

(* Of a subscription that names a cursor: every owed event below f has been  *)
(* delivered or reported; f is the floor, or where the connection has got to.*)
SettledBelow(f) == \A w \in Wanted : owed < w /\ w < f => w \in Range(out) \union bad

NothingMissed ==
    cursor # None /\ owed # None =>
        /\ lastSeq # None => SettledBelow(lastSeq + 1)
        /\ conn = "open" => SettledBelow(send)

IInv ==
    /\ TypeOK /\ cursor \in Starts
    /\ Ascending /\ FloorIsHighest /\ OwedSinceAccepted /\ NothingMissed
==============================================================================
