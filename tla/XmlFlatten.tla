----------------------------- MODULE XmlFlatten -----------------------------
(***************************************************************************)
(* mxml_write: one token carrier moves along the list of edits.  Position  *)
(* 0 is the writer, position i the edit i (1 is the newest) and the last   *)
(* one the text.  Empty, the carrier moves towards the text, which fills   *)
(* it; full, it moves towards the writer, which empties it.  Every edit it *)
(* passes may take, replace or add a token.                                *)
(***************************************************************************)
EXTENDS XmlEdits

CONSTANTS
    NoToken,        \* the carrier is empty
    EOF,            \* the token after the last one of the text
    MaxWritten      \* bound: edits in a list that is written

ASSUME WrittenAssumption == MaxWritten \in Nat
ASSUME TokenAssumption ==
    /\ NoToken \notin TextToken \cup {EOF}
    /\ EOF.type \notin {"open", "close", "value"} /\ EOF.key = <<>>

VARIABLES
    status,         \* "edit", "write", "written" or "failed"
    curstate,       \* where the carrier is
    carrier,        \* the token in it
    pos,            \* tokens of the text taken
    state,          \* state[i]: what edit i is about to send
    held_token,     \* held_token[i]: the CLOSE that edit i keeps back
    out             \* tokens that were written

writer == <<curstate, carrier, pos, state, held_token, out>>
vars == <<edits, status, writer>>

Top == Len(edits) + 1

FInit ==
    /\ Init
    /\ status = "edit"
    /\ curstate = 0 /\ carrier = NoToken /\ pos = 0
    /\ state = <<>> /\ held_token = <<>>
    /\ out = <<>>

-----------------------------------------------------------------------------
Idle(es) == [i \in DOMAIN es |-> "idle"]
Nothing(es) == [i \in DOMAIN es |-> NoToken]

\* The caller edits the document between two calls of mxml_write.
Editing ==
    /\ status # "write"
    /\ Change
    /\ status' = "edit" /\ out' = <<>>
    /\ UNCHANGED <<curstate, carrier, pos, state, held_token>>

make_editstates ==
    /\ status = "edit" /\ Len(edits) <= MaxWritten
    /\ status' = "write"
    /\ curstate' = 0 /\ carrier' = NoToken /\ pos' = 0
    /\ state' = Idle(edits) /\ held_token' = Nothing(edits)
    /\ out' = <<>>
    /\ UNCHANGED edits

\* Where the carrier goes with the token that it has now.
Move(token) ==
    /\ carrier' = token
    /\ curstate' = IF token = NoToken THEN curstate + 1 ELSE curstate - 1

Is(type, key) == carrier # NoToken /\ carrier.type = type /\ carrier.key = key

\* The end of the loop; the memory of the states is free again, or is lost
\* when the caller's function fails.
Stop(result) ==
    /\ status' = result
    /\ curstate' = 0 /\ carrier' = NoToken /\ pos' = 0
    /\ state' = <<>> /\ held_token' = <<>>

write_token ==
    /\ curstate = 0
    /\ IF carrier = EOF
         THEN Stop("written") /\ UNCHANGED out
         ELSE /\ out' = IF carrier = NoToken THEN out ELSE Append(out, carrier)
              /\ Move(NoToken)
              /\ UNCHANGED <<status, pos, state, held_token>>

write_fails ==
    /\ curstate = 0 /\ carrier \notin {NoToken, EOF}
    /\ Stop("failed")
    /\ out' = <<>>

xml_tokenize ==
    /\ curstate = Top
    /\ IF pos = Len(Source)
         THEN Move(EOF) /\ UNCHANGED pos
         ELSE Move(Source[pos + 1]) /\ pos' = pos + 1
    /\ UNCHANGED <<status, state, held_token, out>>

\* The carrier is at an edit of the kind op.
At(op) == curstate \in DOMAIN edits /\ edits[curstate].op = op
This == edits[curstate]
Become(s) == state' = [state EXCEPT ![curstate] = s]

\* Mutant of Removes: parent and child are swapped; EOF is above everything.
Removes_Parents(token, key) == SelfOrChild(key, token.key)
Removes(token, key) == SelfOrChild(token.key, key)

process_delete ==
    /\ At("delete")
    /\ LET removed == carrier # NoToken /\ Removes(carrier, This.key)
       IN  Move(IF removed THEN NoToken ELSE carrier)
    /\ UNCHANGED <<status, pos, state, held_token, out>>

process_set ==
    /\ At("set")
    /\ \/ /\ Is("open", This.key)
          /\ Become("opened") /\ Move(carrier)
       \/ /\ Is("value", This.key)
          /\ Move(NoToken) /\ UNCHANGED state
       \/ /\ carrier = NoToken /\ state[curstate] = "opened"
          /\ Become("idle") /\ Move(Token("value", This.key, This.value))
       \/ /\ ~Is("open", This.key) /\ ~Is("value", This.key)
          /\ ~(carrier = NoToken /\ state[curstate] = "opened")
          /\ Move(carrier) /\ UNCHANGED state
    /\ UNCHANGED <<status, pos, held_token, out>>

\* The close of the parent.  An element at the top has none.
Triggers == Is("close", Front(This.key))

\* Mutants of Trigger: the parent's CLOSE is passed on; the carrier's new
\* token is kept instead of the old one.
Trigger_PassesOn == Become("open") /\ Move(carrier) /\ UNCHANGED held_token
Trigger_KeepsNew ==
    LET new == Token("open", This.key, Empty)
    IN  /\ held_token' = [held_token EXCEPT ![curstate] = new]
        /\ Become("open") /\ Move(new)
Trigger ==
    /\ held_token' = [held_token EXCEPT ![curstate] = carrier]
    /\ Become("open") /\ Move(Token("open", This.key, Empty))

process_append ==
    /\ At("append")
    /\ \/ Triggers /\ Trigger
       \/ /\ ~Triggers /\ carrier # NoToken
          /\ Move(carrier) /\ UNCHANGED <<state, held_token>>
       \/ /\ carrier = NoToken
          /\ CASE state[curstate] = "idle"  -> Move(NoToken) /\ UNCHANGED state
               [] state[curstate] = "open"  -> /\ Become("value")
                                               /\ Move(Token("value", This.key, This.value))
               [] state[curstate] = "value" -> /\ Become("close")
                                               /\ Move(Token("close", This.key, Empty))
               [] state[curstate] = "close" -> /\ Become("idle")
                                               /\ Move(held_token[curstate])
          /\ UNCHANGED held_token
    /\ UNCHANGED <<status, pos, out>>

process_token ==
    /\ status = "write"
    /\ \/ write_token \/ xml_tokenize
       \/ process_delete \/ process_set \/ process_append
    /\ UNCHANGED edits

Failing == status = "write" /\ write_fails /\ UNCHANGED edits

FNext == Editing \/ make_editstates \/ process_token \/ Failing
FSpec == FInit /\ [][FNext]_vars /\ WF_vars(process_token)

-----------------------------------------------------------------------------
Tokens == ToSet(Source) \cup {NoToken, EOF}
            \cup {Token(type, edits[i].key, Empty) : type \in {"open", "close"},
                                                     i \in DOMAIN edits}
            \cup {Token("value", edits[i].key, edits[i].value) : i \in DOMAIN edits}

\* Shapes of the variables; what an edit keeps back is its parent's CLOSE.
TypeOK ==
    /\ EditsOK
    /\ status \in {"edit", "write", "written", "failed"}
    /\ curstate \in 0 .. Top /\ carrier \in Tokens
    /\ pos \in 0 .. Len(Source)
    /\ status = "write" =>
          /\ DOMAIN state = DOMAIN edits /\ DOMAIN held_token = DOMAIN edits
          /\ \A i \in DOMAIN edits :
                /\ edits[i].op = "delete" => state[i] = "idle"
                /\ edits[i].op = "set"    => state[i] \in {"idle", "opened"}
                /\ edits[i].op = "append" /\ state[i] # "idle" =>
                      held_token[i] = Token("close", Front(edits[i].key), Empty)
    /\ ToSet(out) \subseteq Tokens

\* The inductive invariant: what is kept back is a token, and what an edit does
\* next is told by its state.
FlattenInv ==
    /\ TypeOK
    /\ status # "write" => carrier = NoToken /\ curstate = 0
    /\ status = "write" =>
          \A i \in DOMAIN edits :
              /\ state[i] \in {"idle", "opened", "open", "value", "close"}
              /\ edits[i].op = "append" => state[i] # "opened"
              /\ held_token[i] \in Tokens
    /\ out \in Seq(Tokens)

\* The same tokens, asked for their keys: what mxml_keys returns.
mxml_keys ==
    LET keys[n \in 0 .. Len(out)] ==
            IF n = 0 THEN <<>>
            ELSE IF IsA(out, "open", n) THEN Append(keys[n - 1], out[n].key)
            ELSE keys[n - 1]
    IN  keys[Len(out)]

TopAppended ==
    \E i \in DOMAIN edits : edits[i].op = "append" /\ Len(edits[i].key) = 1

\* What was written when mxml_write returns is a well formed text of the very
\* document that mxml_get shows: the same elements with the same values,
\* although one follows the edits from the newest and the other sends every
\* token through all of them (mxml.h, at mxml_write; mxml_flatten.c:13-41).
\* An element appended at the top is not written: see the README.
WrittenIsDocument ==
    (status = "written" /\ ~TopAppended)
      => /\ WellFormed(out)
         /\ IsInjective(mxml_keys) /\ ToSet(mxml_keys) = DOMAIN Document
         /\ \A i \in Tags(out, "open") : TextAfter(out, i) = Document[out[i].key]

\* The text that was written, read by a new handle, is the document once more:
\* every element is found with its value and nothing else is, whatever was
\* looked up before and is still, or no longer, in the cache (mxml_find.c:20-24).
FoundIsDocument ==
    (status = "written" /\ ~TopAppended) =>
        \A first \in KnownPaths :
            LET cache == find_key_noedit(out, cache_init, first).cache
            IN  \A k \in KnownPaths :
                    TextIn(out, find_key_noedit(out, cache, k).span)
                        = IF k \in DOMAIN Document THEN Document[k] ELSE None

\* mxml_write returns, whatever the edits: the carrier does not go up and down
\* for ever.
WriteEnds == status = "write" ~> status # "write"
=============================================================================
