------------------------------ MODULE XmlFind ------------------------------
(***************************************************************************)
(* Finding an element in a text that is never changed.  A cursor moves     *)
(* over the tokens of the text: find_key_noedit finds the parent of an     *)
(* element, then walks over the parent's children.  What has been found is *)
(* kept in a cache of a few places, which are used in turn.                *)
(***************************************************************************)
EXTENDS XmlKeys

CONSTANTS
    None,           \* no element
    CacheMax        \* places of the cache

ASSUME NoneAssumption == None \notin Nat \cup {Empty} \cup [from : Nat, to : Nat]
ASSUME CacheAssumption == CacheMax \in Nat \ {0}

Token(type, key, value) == [type |-> type, key |-> key, value |-> value]

\* What lies between the tags of an element: the tokens from .. to - 1.
Span(from, to) == [from |-> from, to |-> to]
Whole(text) == Span(1, Len(text) + 1)

IsA(text, type, i) == text[i].type = type

-----------------------------------------------------------------------------
(* Texts that are well formed.                                             *)

TextToken ==
    [type : {"open", "close"}, key : Path, value : {Empty}]
        \cup [type : {"value"}, key : Seq(STRING), value : Nat \cup {Empty}]

Tags(text, type) == {i \in DOMAIN text : IsA(text, type, i)}

\* The elements: their tags <<open, close>>, and their paths.
Elements(text) ==
    {e \in Tags(text, "open") \X Tags(text, "close") : text[e[1]].key = text[e[2]].key}
PathAt(text, e) == text[e[1]].key

Within(i, e) == e[1] < i /\ i < e[2]

\* Every tag belongs to an element, every path to one, every element lies in
\* its parent and in no other, and the text between two tags in the elements of
\* its path.
WellFormed(text) ==
    /\ text \in Seq(TextToken)
    /\ \A i \in DOMAIN text :
          /\ IsA(text, "open", i)  => \E e \in Elements(text) : e[1] = i
          /\ IsA(text, "close", i) => \E e \in Elements(text) : e[2] = i
          /\ IsA(text, "value", i) =>
                /\ text[i].key = <<>>
                      \/ \E e \in Elements(text) : PathAt(text, e) = text[i].key
                /\ \A e \in Elements(text) :
                      Within(i, e) <=> SelfOrChild(text[i].key, PathAt(text, e))
    /\ \A e \in Elements(text) :
          /\ e[1] < e[2]
          /\ Len(PathAt(text, e)) = 1
                \/ \E d \in Elements(text) : PathAt(text, d) = Front(PathAt(text, e))
    /\ \A d, e \in Elements(text) :
          LET k == PathAt(text, d)
              l == PathAt(text, e)
          IN  /\ k = l => d = e
              /\ k # l /\ SelfOrChild(l, k) => d[1] < e[1] /\ e[2] < d[2]
              /\ ~SelfOrChild(l, k) /\ ~SelfOrChild(k, l) => d[2] < e[1] \/ e[2] < d[1]

\* The text of the element that is opened by token i.
TextAfter(text, i) ==
    IF i < Len(text) /\ IsA(text, "value", i + 1) THEN text[i + 1].value ELSE Empty

\* No element has text behind another element in it.
Unmixed(text) ==
    \A i \in Tags(text, "value") :
        text[i].key = <<>> \/ text[i].value = Empty
            \/ (i > 1 /\ IsA(text, "open", i - 1) /\ text[i - 1].key = text[i].key)

-----------------------------------------------------------------------------
(* The cursor.                                                             *)

\* How many elements that open at from or later are open in front of token i.
Depth(text, from, i) ==
    LET Of(type) == {j \in from .. i - 1 : IsA(text, type, j)}
    IN  Cardinality(Of("open")) - Cardinality(Of("close"))

\* Mutant of cursor_skip_to_close: the next close is taken for the matching one.
cursor_skip_to_close_Next(text, span) ==
    Min({i \in span.from .. span.to : i = span.to \/ IsA(text, "close", i)})
cursor_skip_to_close(text, span) ==
    Min({i \in span.from .. span.to :
            i = span.to \/ (IsA(text, "close", i) /\ Depth(text, span.from, i) = 0)})

\* The opening tags of the elements that a walk over a span comes to.
Children(text, span) ==
    {i \in span.from .. cursor_skip_to_close(text, span) - 1 :
        IsA(text, "open", i) /\ Depth(text, span.from, i) = 0}

-----------------------------------------------------------------------------
(* The cache.                                                              *)

cache_init == [place |-> [i \in 0 .. CacheMax - 1 |-> <<<<>>, None>>], next |-> 0]

\* Mutant of Same: the lengths of the keys are compared, not the keys.
Same_Length(k, l) == Len(k) = Len(l)
Same(k, l) == k = l

cache_get(cache, k) ==
    LET hits == {i \in DOMAIN cache.place : Same(cache.place[i][1], k)}
    IN  IF hits = {} THEN None ELSE cache.place[Min(hits)][2]

cache_set(cache, k, span) ==
    [place |-> [cache.place EXCEPT ![cache.next] = <<k, span>>],
     next |-> (cache.next + 1) % CacheMax]

-----------------------------------------------------------------------------
Answer(span, cache) == [span |-> span, cache |-> cache]

\* The first child with the tag, within the parent that was found.
In(text, parent, k) ==
    LET opens == {i \in Children(text, parent.span) : Last(text[i].key) = Last(k)}
        from == Min(opens) + 1
        span == Span(from, cursor_skip_to_close(text, Span(from, parent.span.to)))
    IN  IF opens = {} THEN Answer(None, parent.cache)
        ELSE Answer(span, cache_set(parent.cache, k, span))

\* What is found for the path k, and the cache afterwards; f[n] is the call for
\* the first n tags of k.
find_key_noedit(text, cache, k) ==
    LET f[n \in 0 .. Len(k)] ==
            LET path == SubSeq(k, 1, n)
                hit == cache_get(cache, path)
            IN  CASE n = 0 -> Answer(Whole(text), cache)
                  [] n > 0 /\ hit # None -> Answer(hit, cache)
                  [] n > 0 /\ hit = None /\ f[n - 1].span = None -> f[n - 1]
                  [] OTHER -> In(text, f[n - 1], path)
    IN  f[Len(k)]

\* The text of an element up to the first tag in it, which mxml_get returns.
TextIn(text, span) ==
    CASE span = None -> None
      [] span # None /\ span.from < span.to /\ IsA(text, "value", span.from)
           -> text[span.from].value
      [] OTHER -> Empty
=============================================================================
