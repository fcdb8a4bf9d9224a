------------------------------ MODULE XmlEdits ------------------------------
(***************************************************************************)
(* The XML library: the parsed text is never changed.  Every edit adds     *)
(* records to a list, newest first, and find_key looks for a path in the   *)
(* list before it looks into the text.                                     *)
(***************************************************************************)
EXTENDS XmlFind

CONSTANTS
    Source,         \* the text, as tokens
    TagDigit,       \* a digit that ends the name of the list's tag, or 0
    MemoryFails,    \* may an allocation fail?
    MaxEdits,       \* bound: records in the list
    MaxTotal        \* bound: elements in the list tag[*]

ASSUME DigitAssumption == TagDigit \in 0 .. 9
ASSUME BoundAssumption == MaxEdits \in Nat /\ MaxTotal \in Nat
ASSUME MemoryAssumption == MemoryFails \in BOOLEAN
ASSUME SourceAssumption == WellFormed(Source)

VARIABLE edits      \* newest first

Edit(op, key, value) == [op |-> op, key |-> key, value |-> value]

Init == edits = <<>>

-----------------------------------------------------------------------------
(* Looking for a path.                                                     *)

SourcePaths == {Source[i].key : i \in Tags(Source, "open")}

\* The texts that a search of the source finds.
Original ==
    LET Found(k) == find_key_noedit(Source, cache_init, k).span
    IN  [k \in {p \in SourcePaths : Found(p) # None} |-> TextIn(Source, Found(k))]

Decides(e, k) ==
    IF e.op = "delete" THEN SelfOrChild(k, e.key) ELSE e.key = k

\* Mutant of Newest: the first record made is found.
Newest_First(indices) == Max(indices)
Newest(indices) == Min(indices)

find_key(es, k) ==
    LET deciding == {i \in DOMAIN es : Decides(es[i], k)}
        e == es[Newest(deciding)]
        implied == \E i \in DOMAIN es : es[i].op = "append" /\ SelfOrChild(es[i].key, k)
    IN  CASE deciding # {} -> IF e.op = "delete" THEN None ELSE e.value
          [] deciding = {} /\ k \in DOMAIN Original -> Original[k]
          [] OTHER -> IF implied THEN Empty ELSE None

Exists(es, k) == find_key(es, k) # None
Total == Number(find_key(edits, TotalKey))
PathOf(key) == Expanded(key, Total)

-----------------------------------------------------------------------------
(* Recording edits.                                                        *)

\* Records that are made one after the other: all, or those before the one
\* for which there is no memory.
Made(records) ==
    IF MemoryFails THEN {SubSeq(records, 1, n) : n \in 0 .. Len(records)} ELSE {records}

Record(outcomes) ==
    \E records \in outcomes :
        /\ Len(records) + Len(edits) <= MaxEdits
        /\ edits' = Reverse(records) \o edits

\* The numbers of a set in ascending order.
Ascending(S) ==
    {s \in [1 .. Cardinality(S) -> S] :
        /\ \A i, j \in DOMAIN s : i < j => s[i] < s[j]
        /\ ToSet(s) = S}

\* Only tag[+] counts, and a count that could not be recorded goes unnoticed.
mxml_append(key, v) ==
    LET k == PathOf(key)
        missing == {i \in DOMAIN Above(k) : ~Exists(edits, Above(k)[i])}
        count == IF key.kind # "+" THEN <<>>
                 ELSE <<Edit(IF Exists(edits, TotalKey) THEN "set" ELSE "append",
                             TotalKey, Total + 1)>>
        item == <<Edit("append", k, v)>>
    IN  /\ ~Exists(edits, k)
        /\ key.kind = "+" => Total < MaxTotal
        /\ \E down \in Ascending(missing) :
              LET parents == [i \in DOMAIN down |-> Edit("append", Above(k)[down[i]], Empty)]
              IN  Record(Made(parents \o count \o item)
                            \cup IF MemoryFails THEN {parents \o item} ELSE {})

mxml_update(key, v) ==
    /\ key.kind # "#" /\ Exists(edits, PathOf(key))
    /\ Record(Made(<<Edit("set", PathOf(key), v)>>))

\* The total is read off the digits that end the path of the last element.
ReadBack(n) == TagDigit * (IF n < 10 THEN 10 ELSE 100) + n

Uncounted(es, left) ==
    CASE left <= 0 /\ Exists(es, TotalKey)  -> <<Edit("delete", TotalKey, Empty)>>
      [] left <= 0 /\ ~Exists(es, TotalKey) -> <<>>
      [] left > 0 /\ Exists(es, TotalKey)   -> <<Edit("set", TotalKey, left)>>
      [] left > 0 /\ ~Exists(es, TotalKey)  -> <<Edit("append", TotalKey, left)>>

mxml_delete(key) ==
    LET deleted == <<Edit("delete", PathOf(key), Empty)>>
        total == IF IsLastItem(key)
                   THEN Uncounted(deleted \o edits, ReadBack(Total) - 1) ELSE <<>>
    IN  /\ key.kind # "#" /\ Exists(edits, PathOf(key))
        /\ Record(Made(deleted \o total))

\* mxml_set tries to append, and updates what is there already.
mxml_set(key, v) ==
    mxml_append(key, v) \/ (Exists(edits, PathOf(key)) /\ mxml_update(key, v))

Change ==
    \E key \in Keys :
        \/ \E v \in Values :
               mxml_append(key, v) \/ mxml_update(key, v) \/ mxml_set(key, v)
        \/ mxml_delete(key)

-----------------------------------------------------------------------------
Operations == {"append", "set", "delete"}

EditsOK ==
    /\ Len(edits) <= MaxEdits
    /\ \A i \in DOMAIN edits : /\ edits[i].op \in Operations
                               /\ edits[i].key # <<>>
                               /\ edits[i].value \in Nat \cup {Empty}

\* The document that find_key shows.
KnownPaths ==
    SourcePaths \cup UNION {{edits[i].key} \cup ToSet(Above(edits[i].key)) : i \in DOMAIN edits}
Document ==
    [k \in {p \in KnownPaths : Exists(edits, p)} |-> find_key(edits, k)]

\* Whatever edits were made in whatever order, what can be found is the
\* document that results when each edit is carried out at once; in particular
\* a deletion hides older edits below it but not newer ones, and the total
\* follows the elements (mxml.h, at mxml_append and mxml_delete).
Doc == INSTANCE XmlDoc WITH doc <- Document
DocSpec == Doc!Spec
=============================================================================
