------------------------------ MODULE MCRemote ------------------------------
(* Instances of Remote for TLC. *)
EXTENDS Remote, TLC

CONSTANTS r1, s1, s2, u1, u2, h1, h2, n1, n2, a1, a2, c1, c2,
          p1, p2, p3, e1, e2, x1, x2, k1, k2,
          t1, t2, t3

OneRow == {r1}
TwoSlots == {s1, s2}
TwoUsers == {u1, u2}
TwoLines == {c1, c2}
TwoCards == {e1, e2}
ThreeProfiles == {p1, p2, p3}
TwoOnOne == [p \in ThreeProfiles |-> IF p = p3 THEN e2 ELSE e1]

Rule(kind, hits, nth, picks, quietly) ==
  [on |-> TRUE, kind |-> kind, hits |-> hits, nth |-> nth, picks |-> picks, quietly |-> quietly]
TwoRules == {x1, x2}
TwoTargets == {k1, k2}
FourSchemes == {
  [rule |-> (x1 :> Rule("sms", TRUE, 1, {k1}, TRUE))
            @@ (x2 :> Rule("sms", TRUE, 1, {k1, k2}, FALSE)),
   chan |-> (k1 :> "on") @@ (k2 :> "off")],
  [rule |-> (x1 :> Rule("version", TRUE, 1, {k1, k2}, TRUE))
            @@ (x2 :> Rule("system", TRUE, 1, {k2}, FALSE)),
   chan |-> (k1 :> "on") @@ (k2 :> "on")],
  [rule |-> (x1 :> Rule("ddns", TRUE, 2, {k1, k2}, FALSE))
            @@ (x2 :> Rule("automation", FALSE, 1, {k2}, FALSE)),
   chan |-> (k1 :> "on") @@ (k2 :> "gone")],
  [rule |-> (x1 :> Rule("status", TRUE, 1, {k1, k2}, TRUE))
            @@ (x2 :> Rule("status", TRUE, 1, {}, FALSE)),
   chan |-> (k1 :> "on") @@ (k2 :> "gone")]}

\* Two cells share a physical identity, two a channel; one channel is in no table.
ThreeTowers == {t1, t2, t3}
SharedPcis == (t1 :> 1) @@ (t2 :> 1) @@ (t3 :> 2)
TwoArfcns == (t1 :> 1850) @@ (t2 :> 100000) @@ (t3 :> 1850)
TheBands == (1850 :> "B3") @@ (100000 :> "B1")

Swapped == Permutations(TwoUsers) \cup Permutations({p1, p2})

TwoHubs == {h1, h2}
FiveSettings == {
  [enabled |-> FALSE, url |-> h1, fallback |-> TRUE],
  [enabled |-> TRUE, url |-> NoHub, fallback |-> TRUE],
  [enabled |-> TRUE, url |-> h1, fallback |-> TRUE],
  [enabled |-> TRUE, url |-> h1, fallback |-> FALSE],
  [enabled |-> TRUE, url |-> h2, fallback |-> TRUE]}

TwoNames == {n1, n2}
TwoAddresses == {a1, a2}
OneAsker == {"request"}
ThreePlans == {
  [enabled |-> TRUE, domains |-> [A |-> <<n1, n2>>, AAAA |-> << >>]],
  [enabled |-> TRUE, domains |-> [A |-> <<n2>>, AAAA |-> <<n1>>]],
  [enabled |-> FALSE, domains |-> [A |-> <<n1, n2>>, AAAA |-> << >>]]}
=============================================================================
