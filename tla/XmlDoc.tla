------------------------------- MODULE XmlDoc -------------------------------
(***************************************************************************)
(* What the XML library promises: a document is a function from paths to   *)
(* texts, and an edit changes it at once.  XmlEdits, which only records    *)
(* edits in a list, implements it.                                         *)
(***************************************************************************)
EXTENDS XmlKeys

CONSTANT Original   \* the document as it was parsed

VARIABLE doc

Init == doc = Original

Total == IF TotalKey \in DOMAIN doc THEN Number(doc[TotalKey]) ELSE 0
PathOf(key) == Expanded(key, Total)

\* The document without the subtree at k.
Without(d, k) == [p \in {q \in DOMAIN d : ~SelfOrChild(q, k)} |-> d[p]]

\* A new element, with the elements above it that are missing; tag[+] counts.
Insert(key, v) ==
    LET k == PathOf(key)
        counted == IF key.kind = "+" THEN {TotalKey} ELSE {}
    IN  /\ k \notin DOMAIN doc
        /\ doc' = [p \in DOMAIN doc \cup {k} \cup counted \cup ToSet(Above(k)) |->
                      IF p = k THEN v
                      ELSE IF p \in counted THEN Total + 1
                      ELSE IF p \in DOMAIN doc THEN doc[p] ELSE Empty]

Update(key, v) ==
    /\ key.kind # "#" /\ PathOf(key) \in DOMAIN doc
    /\ doc' = [doc EXCEPT ![PathOf(key)] = v]

\* Deleting the last element counts it out; the total of none is no total.
Delete(key) ==
    LET rest == Without(doc, PathOf(key))
    IN  /\ key.kind # "#" /\ PathOf(key) \in DOMAIN doc
        /\ doc' = IF ~IsLastItem(key) \/ TotalKey \notin DOMAIN doc THEN rest
                  ELSE IF Total > 1 THEN [rest EXCEPT ![TotalKey] = Total - 1]
                  ELSE Without(rest, TotalKey)

Next ==
    \E key \in Keys :
        \/ \E v \in Values : Insert(key, v) \/ Update(key, v)
        \/ Delete(key)

Spec == Init /\ [][Next]_doc
=============================================================================
