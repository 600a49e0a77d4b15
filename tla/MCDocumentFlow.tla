---------------------------- MODULE MCDocumentFlow ----------------------------
(***************************************************************************)
(* TLC instances of DocumentFlow: a design (1) approved earlier; change    *)
(* requests (2, 3) affecting it that may bring a decision record (4) and   *)
(* are followed by the design's revision; or a plan (5) without a gate,    *)
(* which only goes for approval by hand and then needs a change request.   *)
(* MCShort is a workflow of the change request alone.                      *)
(***************************************************************************)
EXTENDS DocumentFlow

MCStep(kind, gate) == [kind |-> kind, gate |-> gate]
MCWorkflow == {<<MCStep("document", TRUE), MCStep("revise", TRUE)>>,
               <<MCStep("plan", FALSE), MCStep("code", TRUE)>>}
MCShort == {<<MCStep("document", TRUE)>>}
MCTypeOf == <<"design", "cr", "cr", "adr", "plan">>
MCStepType == [document |-> "cr", plan |-> "plan"]
MCExtraTypes == [document |-> {"adr"}, revise |-> {}, plan |-> {}]
MCUpstream == [d \in Doc |-> IF d = 5 THEN {2} ELSE {}]
MCAffects == [d \in Doc |-> IF d \in {2, 3} THEN Doc \cap {1} ELSE {}]
=============================================================================
