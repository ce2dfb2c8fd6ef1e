---------------------------- MODULE MCRunGossip ----------------------------
(***************************************************************************)
(* An instance of RunGossip for TLC.                                       *)
(***************************************************************************)
EXTENDS RunGossip, TLC

CONSTANTS o, a, b, c, d

\* How many peers a node has at most.  Two branches of different length can
\* lead to d, which is where breadth and depth first differ; d itself need not
\* push for that.
MaxPeers == a :> 2 @@ b :> 2 @@ c :> 1 @@ d :> 0

\* Sequences without repetition of at most k elements of S.
InjectiveSeqs(S, k) ==
  UNION {{s \in [1..len -> S] : \A i, j \in 1..len : s[i] = s[j] => i = j} : len \in 0..k}

\* The nodes other than the origin are interchangeable up to MaxPeers, so the
\* origin gets one sequence of peers, longer than the fanout; it has fewer as
\* some of them fail.
MCActiveSets ==
  {[n \in Nodes |-> CASE n = o -> <<a, b, c>> [] n = a -> sa [] n = b -> sb
                      [] n = c -> sc [] n = d -> <<>>] :
     sa \in InjectiveSeqs({b, c, d}, MaxPeers[a]),
     sb \in InjectiveSeqs({a, c, d}, MaxPeers[b]),
     sc \in InjectiveSeqs({a, b, d}, MaxPeers[c])}
=============================================================================
