------------------------------ MODULE MCLaunchTx ------------------------------
(* LaunchTx with two launches, and sizes on both sides of the limit. *)
EXTENDS LaunchTx, TLC

Dest == <<"module dest">>
SomeDests == {Dest, BUYBACK}

Holder(address, shareBps) == [address |-> address, shareBps |-> shareBps]

SomeSplits ==
  {<<>>,
   <<Holder(Dest, 10000)>>,
   <<Holder(Dest, 1000), Holder(BUYBACK, 9000)>>,
   <<Holder(BUYBACK, 1000), Holder(Dest, 9000)>>,
   <<Holder(Dest, 9000), Holder(BUYBACK, 999)>>,
   <<Holder(Dest, 9500), Holder(BUYBACK, 500)>>,
   <<Holder(Dest, 8000), Holder(BUYBACK, 1000), Holder(WALLET, 1000)>>,
   <<Holder(Dest, 9000), Holder(WALLET, 1000)>>}

\* Launches are interchangeable.
Symmetry == Permutations(Launches)
=============================================================================
