--------------------------- MODULE MCCameraStore ---------------------------
(* Two commands at a time over two accounts whose e-mails, a.b@c.d and     *)
(* a_b@c.d, share a file name, and an account of the direct mode.          *)
EXTENDS CameraStore, TLC
CONSTANTS p1, p2, d1, d2, d3, h1

MCEmail1 == <<"a", ".", "b", "@", "c", ".", "d">>
MCEmail2 == <<"a", "_", "b", "@", "c", ".", "d">>
MCNames == {[region |-> "eu-central", email |-> MCEmail1],
            [region |-> "eu-central", email |-> MCEmail2],
            [region |-> "direct", email |-> MCEmail1]}
MCSymmetry == Permutations(Process)
MCRegions == {"eu-central"}
MCHomesOf == (MCEmail1 :> {h1}) @@ (MCEmail2 :> {})
MCDevicesIn == h1 :> {d1, d2}
MCSharedWith == (MCEmail1 :> {}) @@ (MCEmail2 :> {d3})
=============================================================================
