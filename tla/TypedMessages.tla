--------------------------- MODULE TypedMessages ---------------------------
(***************************************************************************)
(* Typed JSON messages at the node that receives them: the reactors take   *)
(* frames from their peers side by side, the application registers and     *)
(* removes handlers from its own thread and from inside a handler, and     *)
(* each message calls the handlers there were when it came.  Handlers are  *)
(* numbered as they are registered, so a list of them is a set.            *)
(***************************************************************************)
EXTENDS Naturals, Sequences, FiniteSets

CONSTANTS
    Reactors, Types,
    LengthOf(_), TypeLenLimit,      \* the length of a type's name, and what its field holds
    MaxHandlers, MaxMessages        \* bounds: handlers registered, messages sent

ASSUME TypedAssumption ==
    /\ IsFiniteSet(Reactors)
    /\ MaxHandlers \in Nat

VARIABLE typed

Handlers == 1 .. MaxHandlers

TypedInit ==
    typed = [handlers |-> [t \in Types |-> {}], made |-> 0, sent |-> 0, wire |-> [r \in Reactors |-> <<>>],
             to_call |-> [r \in Reactors |-> {}], once |-> {}, due |-> [h \in Handlers |-> 0], fired |-> [h \in Handlers |-> 0]]

-----------------------------------------------------------------------------
Register(t, one) ==
    /\ typed.made < MaxHandlers
    /\ LET h == typed.made + 1
       IN typed' = [typed EXCEPT !.made = h, !.handlers[t] = @ \cup {h}, !.once = IF one THEN @ \cup {h} ELSE @]
on(t) == Register(t, FALSE)
once(t) == Register(t, TRUE)
off(t) == typed.handlers[t] # {} /\ typed' = [typed EXCEPT !.handlers[t] = {}]

(* The name's length goes out modulo what its field holds, and the reader  *)
(* takes what follows the name it cut for the body: no JSON.               *)
encode(t, bad) == [type |-> t, bad |-> bad, length |-> LengthOf(t) % TypeLenLimit]
decode(msg) == msg.length = LengthOf(msg.type) /\ ~msg.bad

(* A peer of reactor r sends a message, perhaps with a body that is none.  *)
send(r, t, bad) == typed.sent < MaxMessages /\ typed' = [typed EXCEPT !.sent = @ + 1, !.wire[r] = Append(@, encode(t, bad))]

(* Under the lock: the handlers there are, and what is left of them.       *)
(* Mutant: the one-shot handlers stay for the calls to remove.             *)
TakenLater(b, r, t) == [b EXCEPT !.to_call[r] = b.handlers[t]]
Taken(b, r, t) == [b EXCEPT !.to_call[r] = b.handlers[t], !.handlers[t] = @ \ b.once]
Due(b, t) == [h \in Handlers |-> b.due[h] + IF h \in b.handlers[t] THEN 1 ELSE 0]

(* dispatch by the frame's type, then on_typed up to its unlock.           *)
on_typed(r) ==
    /\ typed.wire[r] # <<>> /\ typed.to_call[r] = {}
    /\ LET msg == Head(typed.wire[r])
           b == [typed EXCEPT !.wire[r] = Tail(@)]
       IN typed' = IF decode(msg) THEN Taken([b EXCEPT !.due = Due(b, msg.type)], r, msg.type) ELSE b

(* The next handler runs; one that throws counts as run.                   *)
Calls(r) ==
    \E h \in typed.to_call[r] :
        /\ \A g \in typed.to_call[r] : h <= g
        /\ typed' = [typed EXCEPT !.to_call[r] = @ \ {h}, !.fired[h] = @ + 1]

TypedNext ==
    \/ \E t \in Types : on(t) \/ once(t) \/ off(t)
    \/ \E r \in Reactors, t \in Types, bad \in BOOLEAN : send(r, t, bad)
    \/ \E r \in Reactors : on_typed(r) \/ Calls(r)

TypedSpec == TypedInit /\ [][TypedNext]_typed

-----------------------------------------------------------------------------
(* The reactors that are still to call handler h.                          *)
CallsOf(h) == {r \in Reactors : h \in typed.to_call[r]}

(* Every handler is called once for every message of its type that came    *)
(* while it was registered, and a one-shot handler once in all, though the *)
(* reactors take messages at the same time and handlers come and go while  *)
(* others run.                                                             *)
OnceIsOnce ==
    /\ \A h \in Handlers : typed.fired[h] + Cardinality(CallsOf(h)) = typed.due[h]
    /\ \A h \in typed.once : typed.due[h] <= 1

=============================================================================
