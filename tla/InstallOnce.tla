------------------------------ MODULE InstallOnce ------------------------------
(* What an immutable store promises: a key gets its content once and for     *)
(* ever, whoever asks, in whatever form and however often; every caller      *)
(* learns whether the content it sent is the one stored.                     *)
CONSTANTS
  Contents,  \* what may be stored
  KeyOf(_)   \* the key a content belongs under

VARIABLES
  stored,  \* key |-> its content
  answer   \* the last answer: [state, content]; only "refused" has no content

onceVars == <<stored, answer>>

Answer(state, c) == answer' = [state |-> state, content |-> c]

Insert(c) ==
  /\ KeyOf(c) \notin DOMAIN stored
  /\ stored' = [k \in DOMAIN stored \union {KeyOf(c)} |->
                  IF k = KeyOf(c) THEN c ELSE stored[k]]
  /\ Answer("inserted", c)

\* The same content again: the caller may take its earlier call for done.
Recognize(c) ==
  /\ KeyOf(c) \in DOMAIN stored
  /\ stored[KeyOf(c)] = c
  /\ Answer("existing", c)
  /\ UNCHANGED stored

Conflict(c) ==
  /\ KeyOf(c) \in DOMAIN stored
  /\ stored[KeyOf(c)] # c
  /\ Answer("conflict", c)
  /\ UNCHANGED stored

Refuse ==
  /\ answer' = [state |-> "refused"]
  /\ UNCHANGED stored

OnceInit ==
  /\ stored = [k \in {} |-> k]
  /\ answer = [state |-> "none"]

OnceNext ==
  \/ \E c \in Contents : Insert(c) \/ Recognize(c) \/ Conflict(c)
  \/ Refuse

OnceSpec == OnceInit /\ [][OnceNext]_onceVars
================================================================================
