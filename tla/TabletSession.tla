---------------------------- MODULE TabletSession ----------------------------
(* The one session that an employee's tablet has, and the WebSockets opened with its tokens.  *)
(* A sign-in replaces the session's key; the tokens it returns carry the key.  Whether a token *)
(* is still alive (its lifetime, a refresh that copies the key, a logout that takes the        *)
(* refresh token) is left open: an action that needs a live token may or may not happen.       *)
EXTENDS Integers, FiniteSets

CONSTANTS Employees,   \* users with a tablet
          MaxSignIns   \* bound on the sign-ins of an employee

VARIABLES
  session,   \* key of the employee's TabletSession row; 0: there is none
  joined     \* tokens whose socket is in the group incident_user_<id>

sessionVars == <<session, joined>>

ASSUME SessionAssumption == MaxSignIns \in Nat

\* secrets.token_hex(32) never repeats: the keys of an employee are numbered as they are given.
Tokens == Employees \X (1..MaxSignIns)

SessionTypeOK ==
  /\ session \in [Employees -> 0..MaxSignIns]
  /\ joined \subseteq Tokens

SessionInit ==
  /\ session = [e \in Employees |-> 0]
  /\ joined = {}

\* TabletAuthView.post: the PINFL is found, update_or_create writes the new key over the old
\* one.  Open sockets are not told.
SignIn(e) ==
  /\ session[e] < MaxSignIns
  /\ session' = [session EXCEPT ![e] = @ + 1]
  /\ UNCHANGED joined

\* IsTabletSessionValid for a REST call, and _jwt_user for a socket: the key in the token is
\* the key in the row.
Valid(t) == session[t[1]] = t[2]

\* connect(): the token is looked at, then the socket joins its employee's group, and nothing
\* looks at the token again.  (A sign-in between the two leaves what one just after them leaves.)
Join(t) ==
  /\ t \notin joined /\ Valid(t)
  /\ joined' = joined \cup {t}
  /\ UNCHANGED session

\* disconnect()
Leave(t) ==
  /\ t \in joined
  /\ joined' = joined \ {t}
  /\ UNCHANGED session

SessionNext ==
  \/ \E e \in Employees : SignIn(e)
  \/ \E t \in Tokens : Join(t) \/ Leave(t)
==============================================================================
