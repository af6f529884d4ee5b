------------------------------ MODULE MCWebClient ------------------------------
(***************************************************************************)
(* Finite instances of the web client's parts that take no time: evidence  *)
(* review and its queries, the workspaces and theirs, the ways about, and  *)
(* the viewer.  They share no state that their properties are about, so    *)
(* each behaviour is one of one part, while the others stay where they     *)
(* begin.                                                                  *)
(***************************************************************************)
EXTENDS ReviewClient, Workspaces, Navigation, EvidenceViewer, TLC

CONSTANTS w1, w2

MCWrites == {w1, w2}

Panels == {{"evidence"}, {"queue"}, {"item"}, {"history"}}

(* Mutations of evidence are interchangeable.                              *)
WriteSymmetry == Permutations(MCWrites)

(* Two workspaces, the second newer than the first; one question that no   *)
(* name has in it, and one that is part of several.                        *)
MCListable == {"w1", "w2"}
MCListings == {<<>>, <<"w1">>, <<"w2", "w1">>}
MCMatching == [q \in {"q", "w"} |-> IF q = "q" THEN {} ELSE {"w1", "w2", "Go to Dashboard"}]

(* A short and a longer file; evidence on a page each has, on a page the   *)
(* file does not have, and on no page at all.                              *)
MCPages == [x \in {"short", "long"} |-> IF x = "short" THEN 2 ELSE 3]
MCTargets ==
  {[document |-> "short", page |-> 1, quote |-> "one"],
   [document |-> "short", page |-> 2, quote |-> "one"],
   [document |-> "long", page |-> 4, quote |-> "one"],
   [document |-> "long", page |-> 0, quote |-> "none"]}

(* Pages of two lines, and the quotes of two characters or more in them:   *)
(* lines shorter than, as long as and longer than both thresholds, lines   *)
(* with blanks at either end and inside, and a blank one.                  *)
MCLines ==
  {<<"x">>, <<"y", "x">>, <<"x", "x", "y">>, <<"x", "y", "x", "x">>, <<"y", "x", "y", "x">>,
   <<"x", " ", "y">>, <<" ", "x", "y">>, <<"y", "x", "y", " ">>, <<" ">>}
MCLayers ==
  {l \in [lines: {<<a, b>> : a, b \in MCLines}, from: 2..9, to: 3..10] :
     l.from < l.to /\ l.to <= Len(PageText(l.lines))}

-----------------------------------------------------------------------------
VARIABLE part    (* the one that moves                                      *)

AllInit ==
  /\ part \in {"review", "workspaces", "navigation", "viewer"}
  /\ Init /\ (part # "review" => followed = {"evidence"})
  /\ WorkspacesInit /\ (part # "workspaces" => workspace = Missing)
  /\ NavigationInit /\ ViewerInit

ReviewMoves ==
  part = "review" /\ Next /\ UNCHANGED <<workspaces_vars, navigation_vars, viewer_vars>>

WorkspacesMove ==
  part = "workspaces" /\ WorkspacesNext /\ UNCHANGED <<vars, navigation_vars, viewer_vars>>

NavigationMoves ==
  part = "navigation" /\ NavigationNext /\ UNCHANGED <<vars, workspaces_vars, viewer_vars>>

ViewerMoves ==
  part = "viewer" /\ ViewerNext /\ UNCHANGED <<vars, workspaces_vars, navigation_vars>>

AllNext ==
  (ReviewMoves \/ WorkspacesMove \/ NavigationMoves \/ ViewerMoves) /\ UNCHANGED part

AllSpec ==
  AllInit /\ [][AllNext]_<<part, vars, workspaces_vars, navigation_vars, viewer_vars>>

=============================================================================
