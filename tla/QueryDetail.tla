------------------------------ MODULE QueryDetail ------------------------------
(***************************************************************************)
(* The detail of one query: QueryDetailFromLive (internal/normalize) over  *)
(* the document that the coordinator keeps (internal/presto/queryinfo.go). *)
(*                                                                         *)
(* A tree of stages or plan nodes is the set of its paths: a node is the   *)
(* sequence of positions that leads to it, starting with the root's <<1>>, *)
(* and an absent tree is empty.  The path stands for the node's id, which  *)
(* is opaque to the client: a listed stage does not tell its parent.       *)
(* Amounts are what the engine measured; the client sees them only as      *)
(* written.                                                                *)
(***************************************************************************)
EXTENDS EngineText, SequencesExt

(* External: a figure as the engine writes it. *)
Duration(figure) == Write(figure.amount, DurationUnits, figure.form)
Size(figure) == Write(figure.amount, SizeUnits, figure.form)

Forms == {"succinct", "foreign", "bare", "odd", "absent"}

Figures == [amount : Nat, form : Forms]

Root == <<1>>

Paths == Seq(Nat \ {0})

IsTree(t) == /\ t \subseteq Paths
             /\ IsFiniteSet(t)
             /\ \A p \in t : \/ p = Root
                            \/ /\ Len(p) > 1
                               /\ Front(p) \in t
                               /\ Last(p) > 1 => Append(Front(p), Last(p) - 1) \in t

(* What a document decodes to (QueryInfo and the types in it). *)
IsDocument(doc) ==
    /\ DOMAIN doc = {"id", "state", "stages", "stageCpu", "plan", "operators", "cpu", "scanned",
                     "peak", "peakUser", "errorCode", "failure"}
    /\ IsTree(doc.stages)
    /\ \A p \in doc.stages : /\ doc.stageCpu[p] \in Figures
                             /\ doc.plan[p] # None => /\ Root \in doc.plan[p][1]
                                                      /\ IsTree(doc.plan[p][1])
    /\ doc.operators \in Seq([id : Nat, addInput : Figures, getOutput : Figures])
    /\ {doc.cpu, doc.scanned, doc.peak, doc.peakUser} \subseteq Figures
    /\ {doc.errorCode, doc.failure} \subseteq Seq(STRING)
    /\ Len(doc.errorCode) <= 1
    /\ Len(doc.failure) <= 1

-----------------------------------------------------------------------------
(* Walks. *)

(* Where the loop over the children of a node starts and goes on. *)
FirstChild(p) == Append(p, 1)
NextSibling(p) == Append(Front(p), Last(p) + 1)

(* The nodes and where a walk finds that there is none. *)
Places(t) == t \cup {FirstChild(p) : p \in t} \cup {NextSibling(p) : p \in t} \cup {Root}

Concat(seqs) == IF seqs = <<>> THEN <<>> ELSE FlattenSeq(seqs)

(* The stages, every one before its substages (stagesFromLive, and the     *)
(* stage walk of planFromLive).                                            *)
Walk(t) ==
    LET walk[p \in Places(t)] ==
            IF p \in t THEN <<p>> \o walk[FirstChild(p)] \o walk[NextSibling(p)] ELSE <<>>
    IN  walk[Root]

PlanNode(stage, n, parent) == [stage |-> stage, id |-> n, parent |-> parent]

Parents(t) == {None} \cup {Some(n) : n \in t}

(* Mutants (here and below): plausible bugs that the properties must find. *)
FlattenPlanUnderRoot(t, stage) ==
    LET flat[at \in Places(t) \X Parents(t)] ==
            IF at[1] \in t
            THEN <<PlanNode(stage, at[1], at[2])>>
                     \o flat[<<FirstChild(at[1]), Some(Root)>>]
                     \o flat[<<NextSibling(at[1]), at[2]>>]
            ELSE <<>>
    IN  flat[<<Root, None>>]

(* flattenPlan: a walk is at a place, under a parent whose id it was given,*)
(* and hands the id of a node to its children.                             *)
FlattenPlan(t, stage) ==
    LET flat[at \in Places(t) \X Parents(t)] ==
            IF at[1] \in t
            THEN <<PlanNode(stage, at[1], at[2])>>
                     \o flat[<<FirstChild(at[1]), Some(at[1])>>]
                     \o flat[<<NextSibling(at[1]), at[2]>>]
            ELSE <<>>
    IN  flat[<<Root, None>>]

(* A stage has no plan, one that does not decode (both None) or a tree. *)
PlanOfStage(doc, p) == IF doc.plan[p] = None THEN <<>> ELSE FlattenPlan(doc.plan[p][1], p)

-----------------------------------------------------------------------------
(* The normalizer. *)

StagesFromLive(doc) ==
    LET order == Walk(doc.stages)
    IN  [i \in DOMAIN order |->
            [stage |-> order[i], cpu |-> Millis(Duration(doc.stageCpu[order[i]]))]]

PlanFromLive(doc) == LET order == Walk(doc.stages)
                     IN  Concat([i \in DOMAIN order |-> PlanOfStage(doc, order[i])])

OperatorsFromLive(doc) ==
    [i \in DOMAIN doc.operators |->
        [id  |-> doc.operators[i].id,
         cpu |-> Millis(Duration(doc.operators[i].addInput))
                     + Millis(Duration(doc.operators[i].getOutput))]]

PeakOnly(doc) == BytesOf(Size(doc.peak))

(* Engines name the peak differently; 0 is unknown. *)
PeakMemory(doc) == IF BytesOf(Size(doc.peak)) > 0 THEN BytesOf(Size(doc.peak))
                   ELSE BytesOf(Size(doc.peakUser))

ErrorOf(doc) ==
    IF doc.errorCode = None /\ doc.failure = None THEN None
    ELSE LET named == IF doc.errorCode = None THEN "" ELSE doc.errorCode[1]
         IN  Some(IF named = "" /\ doc.failure # None THEN doc.failure[1] ELSE named)

Summary(doc) == [id |-> doc.id, state |-> doc.state,
                 cpu |-> Millis(Duration(doc.cpu)), scanned |-> BytesOf(Size(doc.scanned)),
                 peak |-> PeakMemory(doc), error |-> ErrorOf(doc)]

Sections(doc) ==
    <<"summary">> \o (IF StagesFromLive(doc) # <<>> THEN <<"stages">> ELSE <<>>)
                  \o (IF PlanFromLive(doc) # <<>> THEN <<"plan">> ELSE <<>>)
                  \o (IF OperatorsFromLive(doc) # <<>> THEN <<"operators">> ELSE <<>>)

QueryDetailFromLive(doc, raw) ==
    [summary |-> Summary(doc), stages |-> StagesFromLive(doc), plan |-> PlanFromLive(doc),
     operators |-> OperatorsFromLive(doc), sections |-> Sections(doc), raw |-> raw]

-----------------------------------------------------------------------------
(* The reference. *)

(* Document order of two nodes: the first difference decides, and a prefix *)
(* comes first.                                                            *)
Before(p, q) == \/ Len(p) < Len(q) /\ \A i \in DOMAIN p : p[i] = q[i]
                \/ \E i \in DOMAIN p \cap DOMAIN q :
                      p[i] < q[i] /\ \A j \in 1 .. i - 1 : p[j] = q[j]

(* The numbered nodes are those of t, in document order. *)
ListsInOrder(s, t) == /\ \A i, j \in DOMAIN s : i < j <=> Before(s[i], s[j])
                      /\ {s[i] : i \in DOMAIN s} = t

(* A size or duration is known when the client can read what was written.  *)
Known(figure) == figure.form = "succinct"

Near(reported, figure, units) ==
    LET error == reported - 100 * figure.amount
    IN  2 * (IF error < 0 THEN 0 - error ELSE error) <= Precision(figure.amount, units)

(* int64() may take one byte more. *)
NearSize(bytes, figure) ==
    LET error == 200 * (bytes - figure.amount)
        limit == Precision(figure.amount, SizeUnits)
    IN  error <= limit /\ 0 - error < limit + 200

=============================================================================
