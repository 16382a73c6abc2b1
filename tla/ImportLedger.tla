---------------------------- MODULE ImportLedger ----------------------------
(***************************************************************************)
(* What dispatch ingestion promises to whoever uploads a snapshot: an      *)
(* idempotency key is bound to the bytes of the first snapshot accepted    *)
(* under it and stays bound to them, and what was accepted stays retained. *)
(* One atomic step per accepted upload; a replay changes nothing.          *)
(***************************************************************************)
CONSTANTS
    Key,        \* provider-scoped idempotency keys
    Content,    \* snapshot payloads, each standing for its SHA-256
    Mode,       \* acquisition modes
    Unbound     \* no upload was accepted under the key yet

VARIABLES
    bound,      \* key -> the content it is bound to
    retained    \* the <<content, mode>> pairs with a raw snapshot

vars == <<bound, retained>>

Init ==
    /\ bound = [k \in Key |-> Unbound]
    /\ retained = {}

\* An upload under a fresh key: the key is bound and the snapshot retained
\* (already retained when another key brought the same bytes before).
Accept(k, c, m) ==
    /\ bound[k] = Unbound
    /\ bound' = [bound EXCEPT ![k] = c]
    /\ retained' = retained \cup {<<c, m>>}

Next == \E k \in Key, c \in Content, m \in Mode : Accept(k, c, m)

Spec == Init /\ [][Next]_vars
=============================================================================
