----------------------------- MODULE MCSubmission -----------------------------
(* Two attempts at a time, and pools of three exits, two endpoints, one browser  *)
(* and one upload slot.  A scene says what the two runners work on, which nodes  *)
(* the subscription has (n2 is native) and which of them share an address, and   *)
(* how many attempts and faults there are: every platform and every source of    *)
(* proxies meets the others it shares a pool with in some scene.                 *)
EXTENDS Submission

CONSTANTS r1, r2, n1, n2, n3, en1, ep1, ep2, a1, a2

Text(platform_, source_) == [platform |-> platform_, source |-> source_, images |-> FALSE]
Images(platform_, source_) == [platform |-> platform_, source |-> source_, images |-> TRUE]

Scene(one, two, nodes, i, k) ==
  [plan |-> [r \in Worker |-> IF r = r1 THEN one ELSE two], address |-> nodes,
   starts |-> i, faults |-> k]

Single == [n \in {n1} |-> a1]
Twins == [n \in {n1, n2} |-> a1]
Apart == [n \in {n1, n2} |-> IF n = n1 THEN a1 ELSE a2]
Triplets == [n \in Node |-> a1]
Lone == [n \in Node |-> IF n = n1 THEN a2 ELSE a1]

MCScenes ==
  LET sub == "subscription"
      acc == "account"
      api == "api"
  IN {\* exits of the subscription
      Scene(Text("dola", sub), Text("dola", sub), Twins, 2, 1),
      Scene(Text("dola", sub), Text("doubao", sub), Apart, 2, 1),
      Scene(Text("dola", sub), Text("doubao", sub), Single, 2, 2),
      Scene(Text("dola", sub), Text("doubao", sub), Triplets, 2, 1),
      Scene(Text("doubao", sub), Text("doubao", sub), Lone, 2, 1),
      \* and bridges among them
      Scene(Text("dola", acc), Text("dola", sub), Apart, 2, 1),
      Scene(Text("dola", acc), Text("doubao", sub), Apart, 2, 1),
      Scene(Images("dola", acc), Text("dola", acc), Apart, 2, 1),
      \* endpoints of the proxy API, and attempts without a proxy
      Scene(Images("dola", api), Images("doubao", api), Apart, 2, 1),
      Scene(Images("qianwen", "direct"), Text("studio", api), Apart, 3, 2)}
===============================================================================
