----------------------------- MODULE MCBlockSource -----------------------------
(* TLC instance of BlockSource: two segments around two blocks, the first   **)
(* with a frame as large as the first head's limit.                         *)
EXTENDS BlockSource

Seg(ends) == [kind |-> "segment", ends |-> ends]
Block(n)  == [kind |-> "block", ends |-> <<n>>]
MCPlan    == <<Seg(<<3, 4>>), Block(2), Block(1), Seg(<<2, 3>>), Block(1)>>
==============================================================================
