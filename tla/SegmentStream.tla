----------------------------- MODULE SegmentStream -----------------------------
(****************************************************************************)
(* The downloads of a snapshot: streamSegment and getBlock                  *)
(* (xrpc/download.ts) with the frame reader of segment/segment-reader.ts.   *)
(* A segment is streamed: a body cut in its middle is resumed with Range    *)
(* and If-Range, while compaction may rewrite the file on the server.  A    *)
(* block is one buffered response.  BlockSource runs several of these at    *)
(* once; the actions here are what one download does, and say nothing of    *)
(* the reader.                                                              *)
(****************************************************************************)
EXTENDS Integers, FiniteSetsExt, SequencesExt

CONSTANTS
    Plan,           \* the downloads, in plan order: [kind, ends], where ends are
                    \* the positions in the file at which its frames end
    MaxAttempts,    \* retry.maxAttempts
    MaxGen          \* generations the server's files go through

Downloads == 1..Len(Plan)
Segment(d) == Plan[d].kind = "segment"

(* A segment has a header before its frames; a unit is a stretch of bytes.  *)
HeaderSize(d) == IF Segment(d) THEN 1 ELSE 0
FrameCount(d) == Len(Plan[d].ends)
FrameEnd(d, i) == IF i = 0 THEN HeaderSize(d) ELSE Plan[d].ends[i]

ASSUME PlanAssumption ==
    /\ Plan \in Seq([kind : {"segment", "block"}, ends : Seq(Nat)])
    /\ \A d \in Downloads :
        /\ FrameCount(d) > 0
        /\ \A i, j \in 0..FrameCount(d) : i < j => FrameEnd(d, i) < FrameEnd(d, j)
        /\ Plan[d].kind = "block" => FrameCount(d) = 1
ASSUME BoundsAssumption == MaxAttempts \in Nat \ {0} /\ MaxGen \in Nat \ {0}

VARIABLES
    gen,            \* the generation of the files the server holds
    body,           \* the open response body of a download: [gen, pos]
    etag,           \* the generation its etag names, or None
    recv,           \* the units of the file yielded so far: <<gen, position>>
    attempt         \* requests made

transferVars == <<gen, body, etag, recv, attempt>>

None == 0           \* the code's undefined
Closed == [gen |-> None, pos |-> None]

TransferInit ==
    /\ gen = 1
    /\ body = [d \in Downloads |-> Closed]
    /\ etag = [d \in Downloads |-> None]
    /\ recv = [d \in Downloads |-> <<>>]
    /\ attempt = [d \in Downloads |-> 0]

(* streamSegmentFrames: the frames the units received so far complete. *)
FramesRead(d) == Max({0} \union {i \in 1..FrameCount(d) : FrameEnd(d, i) <= Len(recv[d])})
AllRead(d)    == FramesRead(d) = FrameCount(d)

Resuming(d) == recv[d] # <<>>
Open(d)     == body[d] # Closed

(* Compaction rewrites the files. *)
Rewrite ==
    /\ gen < MaxGen
    /\ gen' = gen + 1
    /\ UNCHANGED <<body, etag, recv, attempt>>

(* The server sends a segment's etag, or a proxy strips it; a block's is not read. *)
EtagsOf(d) == IF Segment(d) THEN {gen, None} ELSE {None}

(* Mutant: a resume takes whatever body it is answered with. *)
RespondAny(d) ==
    /\ ~Open(d) /\ attempt[d] < MaxAttempts
    /\ attempt' = [attempt EXCEPT ![d] = @ + 1]
    /\ \E tag \in EtagsOf(d) :
            etag' = [etag EXCEPT ![d] = IF Resuming(d) THEN @ ELSE tag]
    /\ body' = [body EXCEPT ![d] = [gen |-> gen,
                    pos |-> IF Resuming(d) /\ etag[d] = gen THEN Len(recv[d]) + 1 ELSE 1]]
    /\ UNCHANGED <<gen, recv>>

(* A request is answered.  A first one with the file from its start, with   *)
(* an etag or without; a resumed one, whose If-Range names the etag, is     *)
(* only accepted as a 206 that starts where the last body broke off.        *)
Respond(d) ==
    /\ ~Open(d) /\ attempt[d] < MaxAttempts
    /\ attempt' = [attempt EXCEPT ![d] = @ + 1]
    /\ IF Resuming(d)
       THEN etag[d] = gen /\ etag' = etag
       ELSE \E tag \in EtagsOf(d) : etag' = [etag EXCEPT ![d] = tag]
    /\ body' = [body EXCEPT ![d] = [gen |-> gen, pos |-> Len(recv[d]) + 1]]
    /\ UNCHANGED <<gen, recv>>

(* A chunk of the body is yielded.  A block's is the whole of it. *)
Chunk(d) ==
    /\ Open(d)
    /\ recv' = [recv EXCEPT ![d] =
                    IF Segment(d) THEN Append(@, <<body[d].gen, body[d].pos>>)
                    ELSE [p \in 1..FrameEnd(d, 1) |-> <<body[d].gen, p>>]]
    /\ body' = [body EXCEPT ![d] =
                    IF Segment(d) THEN [gen |-> @.gen, pos |-> @.pos + 1] ELSE Closed]
    /\ UNCHANGED <<gen, etag, attempt>>

(* A request is refused in a way that may pass, with attempts left. *)
RetryRequest(d) ==
    /\ ~Open(d) /\ attempt[d] + 1 < MaxAttempts
    /\ attempt' = [attempt EXCEPT ![d] = @ + 1]
    /\ UNCHANGED <<gen, body, etag, recv>>

(* The body breaks off.  A stream is only resumed under an etag; a block's  *)
(* partial body was never yielded, and the request is made again.           *)
RetryBody(d) ==
    /\ Open(d) /\ attempt[d] < MaxAttempts
    /\ Segment(d) => etag[d] # None
    /\ body' = [body EXCEPT ![d] = Closed]
    /\ UNCHANGED <<gen, etag, recv, attempt>>

Retry(d) == RetryRequest(d) \/ RetryBody(d)

(* The locals of a download that is over. *)
Over(d) ==
    /\ etag' = [etag EXCEPT ![d] = None]
    /\ attempt' = [attempt EXCEPT ![d] = 0]
    /\ UNCHANGED <<gen, recv>>

(* The download errors: a status or a missing header that allows no retry   *)
(* or no splice, the attempts used up, an abort, or bytes that do not parse.*)
Fail(d) == body' = [body EXCEPT ![d] = Closed] /\ Over(d)

(* The last frame is read; what follows it in the file is not.              *)
Complete(d) == AllRead(d) /\ body' = body /\ Over(d)

-------------------------------------------------------------------------------
(* "the concatenation of all yielded chunks equals the original byte        *)
(* stream": over breaks, resumes and rewrites, what a download has yielded  *)
(* is a prefix of one generation of its file.                               *)
NoSplice ==
    \A d \in Downloads : \A p \in DOMAIN recv[d] : recv[d][p] = <<recv[d][1][1], p>>

-------------------------------------------------------------------------------
(* The inductive invariant of the transfers *)

Units == (1..MaxGen) \X (Nat \ {0})

TransferTypeOK ==
    /\ gen \in 1..MaxGen
    /\ body \in [Downloads -> {Closed} \union [gen : 1..MaxGen, pos : Nat \ {0}]]
    /\ etag \in [Downloads -> 0..MaxGen]
    /\ recv \in [Downloads -> Seq(Units)]
    /\ attempt \in [Downloads -> 0..MaxAttempts]

(* An open body goes on where the last one broke off, in the same generation. *)
BodyContinues ==
    \A d \in Downloads : Open(d) =>
        /\ body[d].pos = Len(recv[d]) + 1
        /\ Resuming(d) => body[d].gen = recv[d][1][1]

(* The etag names the generation of what was received, or will be first.    *)
EtagNamesBody ==
    \A d \in Downloads : etag[d] # None =>
        IF Resuming(d) THEN etag[d] = recv[d][1][1] ELSE Open(d) => etag[d] = body[d].gen

TransferInv == TransferTypeOK /\ BodyContinues /\ EtagNamesBody /\ NoSplice
==============================================================================
