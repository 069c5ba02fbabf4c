-------------------------- MODULE MCFollowerHoming --------------------------
(* The instances of FollowerHoming and BridgeHoming that TLC checks: two joints on a 4 x 4 grid. *)
EXTENDS BridgeHoming

MCHome == <<0, 0>>
MCScales == <<2, 1, 0>>

\* Clearances by joint 1 (rows) and joint 2 (columns).
World(rows) == [c \in Configs |-> rows[c[1] + 1][c[2] + 1]]

Serpent == World(<< <<3, -1, 1, 3>>, <<0, -1, 3, -1>>, <<3, -1, 3, -1>>, <<3, 3, 1, -1>> >>)
Wall == World(<< <<3, -1, -1, 3>>, <<3, -1, -1, 3>>, <<3, -1, -1, 3>>, <<3, 3, 3, 3>> >>)
Stairs == World(<< <<3, 3, -1, -1>>, <<3, 3, 2, 3>>, <<-1, 3, -1, 3>>, <<-1, -1, -1, 3>> >>)
WalledIn == World(<< <<3, 0, -1, 2>>, <<0, -1, -1, 1>>, <<-1, -1, 2, 3>>, <<1, 1, 3, -2>> >>)
Tight == World(<< <<2, 1, 1, 0>>, <<1, 1, -1, 0>>, <<0, -1, -2, 1>>, <<0, 1, 0, -1>> >>)

Scene(world, pose, command) == [clear |-> world, meas |-> pose, cmd |-> command]
MCScenes ==
  {Scene(Serpent, <<0, 3>>, NoRoute), Scene(Wall, <<0, 3>>, NoRoute),
   Scene(Stairs, <<3, 3>>, NoRoute), Scene(Stairs, <<3, 3>>, <<3, 2>>),
   Scene(Tight, <<3, 1>>, NoRoute), Scene(Tight, <<3, 3>>, NoRoute),
   Scene(WalledIn, <<3, 3>>, <<1, 3>>)}
MCBridgeScenes == {Scene(Serpent, <<0, 3>>, NoRoute), Scene(Tight, <<3, 3>>, NoRoute)}
=============================================================================
