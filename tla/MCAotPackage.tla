---------------------------- MODULE MCAotPackage ----------------------------
(* Two writers of one process, a third of another, and one reader; loops   *)
(* have different shapes, and the path may hold an imported package.       *)
EXTENDS AotPackage, TLC

CONSTANTS w1, w2, w3, r1, p1, p2, a, b, c, alien, square, tall

MCShape == (a :> square) @@ (b :> tall) @@ (c :> "wide") @@ (alien :> "flat")
MCArgument == (w1 :> a) @@ (w2 :> b) @@ (w3 :> c)
MCTarget == (a :> "here") @@ (b :> "here") @@ (c :> "here") @@ (alien :> "elsewhere")

MCProcess == (w1 :> p1) @@ (w2 :> p1) @@ (w3 :> p2)

(* The two writers of p1 may change places, with what they package.        *)
Exchange ==
  {f \in Permutations({w1, w2, a, b, square, tall}) :
     \/ \A x \in DOMAIN f : f[x] = x
     \/ /\ f[w1] = w2 /\ f[w2] = w1
        /\ f[a] = b /\ f[b] = a
        /\ f[square] = tall /\ f[tall] = square}

=============================================================================
