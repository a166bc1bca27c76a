------------------------------- MODULE MCWire -------------------------------
(***************************************************************************)
(* Instance of Wire: bytes of 4 bits, one-byte integers, two-byte offsets  *)
(* and roots.  The samples differ in the lengths of their lists and in     *)
(* trailing zeros.                                                         *)
(***************************************************************************)
EXTENDS Wire

Zero == <<0, 0>>

One == <<0, 1>>

Origin == <<Zero, 0>>

Vote == <<0, <<0, Origin, Origin, Origin>>>>

LaterVote == <<1, <<2, <<One, 1>>, <<Zero, 1>>, Origin>>>>

SignedBlock(votes, signatures) ==
    <<<<<<1, 1, One, Zero, <<votes>>>>, LaterVote>>, signatures>>

Bare == SignedBlock(<<>>, <<>>)

Voted == SignedBlock(<<Vote>>, <<<<0, 0, 0>>>>)

MCBlocks ==
    {Bare, Voted, SignedBlock(<<Vote, LaterVote>>, <<<<1, 2, 3>>, <<0, 0, 1>>>>)}

StateOf(roots, justified, validators, tally) ==
    <<<<1>>, 2, <<1, 1, One, Zero, One>>, Origin, Origin,
      roots, justified, validators, <<One>>, tally>>

MCStates ==
    {StateOf(<<>>, <<>>, <<>>, <<>>),
     StateOf(<<Zero>>, <<0>>, <<<<<<1, 1, 1>>, 0>>>>, <<0, 1, 0, 0>>),
     StateOf(<<Zero, One, Zero>>, <<1, 0, 0, 0>>,
             <<<<<<1, 0, 0>>, 0>>, <<<<0, 0, 0>>, 1>>>>, <<1, 1, 1, 1, 0, 0, 0, 0>>)}

MCSamples ==
    [path \in Streams \cup Topics \cup Tables \cup Whole |->
        CASE path \in {"status", "head"} -> {<<<<One, 2>>, <<Zero, 1>>>>, <<Origin, Origin>>}
          [] path = "request" -> {<<>>, <<Zero>>, <<Zero, Zero>>, <<One, Zero>>}
          [] path = "response" -> {Bare, Voted}
          [] path \in {"block", "blocks"} -> MCBlocks
          [] path = "vote" -> {<<Vote, <<0, 0, 0>>>>, <<LaterVote, <<1, 2, 3>>>>}
          [] path = "states" -> MCStates
          [] path = "bundle" -> BoundedSeq({Bare, Voted}, 2)]

MCPublished == Bare
=============================================================================
