--------------------------------- MODULE Promise ---------------------------------
(***************************************************************************)
(* What Resolve promises its caller, whatever it does inside: it takes     *)
(* documents from its sources one by one, in order, and then answers once: *)
(* with what those documents stand for, or with the errors they have, or   *)
(* with the failure of a source that could not be loaded at all            *)
(* (resolve.go ResolveContext; README.md, "Layers").                       *)
(***************************************************************************)
EXTENDS Naturals, Sequences

CONSTANTS
  Documents,    \* what a source may deliver
  MaxDocuments,
  Answers(_, _) \* (documents, answer): the answer is right for the documents

VARIABLES
  given,  \* the documents delivered so far
  answer  \* what the caller has: [outcome, config, errors]

NoAnswer == [outcome |-> "none", config |-> <<>>, errors |-> {}]

Init == given = <<>> /\ answer = NoAnswer

Deliver ==
  /\ answer = NoAnswer /\ Len(given) < MaxDocuments
  /\ given' \in {Append(given, d) : d \in Documents}
  /\ UNCHANGED answer

\* A source is not there, or cannot be read: no configuration, and no verdict
\* on the documents.
Refuse ==
  /\ answer = NoAnswer
  /\ answer'.outcome = "refused" /\ answer'.config = <<>>
  /\ UNCHANGED given

Answer ==
  /\ answer = NoAnswer
  /\ answer'.outcome \in {"config", "error"}
  /\ Answers(given, answer')
  /\ UNCHANGED given

Next == Deliver \/ Refuse \/ Answer

Spec == Init /\ [][Next]_<<given, answer>>
==============================================================================
