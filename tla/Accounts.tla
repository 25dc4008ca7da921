------------------------------ MODULE Accounts ------------------------------
(***************************************************************************)
(* Who may use the Console: password and GitHub sign-in (routers/auth.py,  *)
(* auth/github.py), the session rows (auth/sessions.py) and the            *)
(* administrator who disables an account (routers/admin.py).               *)
(*                                                                         *)
(* A sign-in is a coroutine with an await at every statement it sends, so  *)
(* that those of other requests come between.  One sign-in makes at most   *)
(* one session, which has its name.  The Console seeds its first           *)
(* administrator before it serves (module ConsoleBoot) and no account is   *)
(* ever removed: /auth/setup, open while there is none, always refuses.    *)
(***************************************************************************)
EXTENDS Integers, FiniteSets

CONSTANTS
  Locals,       \* accounts that have a password
  Githubs,      \* GitHub identities
  SignIns,      \* sign-in requests
  OauthStates,  \* values of the OAuth state parameter
  SessionCap,   \* MAX_SESSIONS_PER_USER
  AdminLogin    \* the identity that EMUNEL_ADMIN_GITHUB_LOGIN names

ASSUME AccountsAssumption ==
  /\ SessionCap \in Nat \ {0} /\ IsFiniteSet(SignIns)
  /\ Locals \cap Githubs = {} /\ AdminLogin \in Githubs
  /\ "none" \notin Locals \cup Githubs \cup OauthStates

VARIABLES
  users,    \* the rows of users: the account, to [admin, disabled]
  rows,     \* the rows of sessions: [id, user, at]
  oauth,    \* the rows of oauth_states
  signIn,   \* of each request: [at, user, state, made]
  clock,    \* the time, of created_at
  disable,  \* the PATCH under way that disables: [user, seen], user "none" when there is none
  ended     \* history: sessions there were when a PATCH disabled their account, once it has answered

accountVars == <<users, rows, oauth, signIn, clock, disable, ended>>

Accounts == Locals \cup Githubs
Nobody == "none"
Idle == [at |-> "idle", user |-> Nobody, state |-> Nobody, made |-> 0]
NoPatch == [user |-> Nobody, seen |-> {}]

AccountsInit ==
  /\ users = [u \in Locals |-> [admin |-> TRUE, disabled |-> FALSE]]
  /\ rows = {} /\ oauth = {} /\ clock = 0
  /\ signIn = [v \in SignIns |-> Idle]
  /\ disable = NoPatch /\ ended = {}

Of(u) == {r \in rows : r.user = u}
Move(v, at) == signIn' = [signIn EXCEPT ![v].at = at]

(* created_at and the token are fixed where create_session is called, and  *)
(* the INSERT may wait for a connection of the pool.                       *)
Granted(v, u) ==
  /\ clock' = clock + 1
  /\ signIn' = [signIn EXCEPT ![v] = [@ EXCEPT !.at = "insert", !.user = u, !.made = clock']]

-----------------------------------------------------------------------------
(* login_password: the row is read, and the rest is decided from it.       *)
PasswordSignIn(v, u) ==
  /\ signIn[v].at = "idle"
  /\ ~users[u].disabled
  /\ Granted(v, u)
  /\ UNCHANGED <<users, rows, oauth, disable, ended>>

(* login_redirect stores a state and deletes those that are an hour old.   *)
BeginOauth(s) ==
  /\ s \notin oauth /\ \A v \in SignIns : signIn[v].state # s
  /\ \E old \in SUBSET oauth : oauth' = (oauth \ old) \cup {s}
  /\ UNCHANGED <<users, rows, signIn, clock, disable, ended>>

(* Mutant of Consumed: the state is read, and deleted later.               *)
ConsumedLater(s) == s \in oauth /\ UNCHANGED oauth

(* DELETE ... RETURNING.                                                   *)
Consumed(s) == s \in oauth /\ oauth' = oauth \ {s}

Callback(v, s) ==
  /\ signIn[v].at = "idle"
  /\ Consumed(s)
  /\ signIn' = [signIn EXCEPT ![v] = [@ EXCEPT !.at = "exchange", !.state = s]]
  /\ UNCHANGED <<users, rows, clock, disable, ended>>

(* GitHub refuses the code, or answers with an error: 502.                 *)
ExchangeFails(v) ==
  /\ signIn[v].at = "exchange"
  /\ Move(v, "refused")
  /\ UNCHANGED <<users, rows, oauth, clock, disable, ended>>

(* upsert_user: one statement inserts the account or refreshes it; the     *)
(* configured login needs another one when it is not an administrator yet. *)
Upsert(v, u) ==
  LET row == IF u \in DOMAIN users THEN users[u] ELSE [admin |-> FALSE, disabled |-> FALSE]
  IN /\ signIn[v].at = "exchange"
     /\ users' = [x \in DOMAIN users \cup {u} |-> IF x = u THEN row ELSE users[x]]
     /\ IF row.disabled THEN Move(v, "refused") /\ UNCHANGED clock
        ELSE IF u = AdminLogin /\ ~row.admin
        THEN signIn' = [signIn EXCEPT ![v] = [@ EXCEPT !.at = "promote", !.user = u]] /\ UNCHANGED clock
        ELSE Granted(v, u)
     /\ UNCHANGED <<rows, oauth, disable, ended>>

Promote(v) ==
  /\ signIn[v].at = "promote"
  /\ users' = [users EXCEPT ![signIn[v].user].admin = TRUE]
  /\ Granted(v, signIn[v].user)
  /\ UNCHANGED <<rows, oauth, disable, ended>>

(* create_session: the INSERT, then the DELETE of what is over the cap.    *)
InsertSession(v) ==
  /\ signIn[v].at = "insert"
  /\ rows' = rows \cup {[id |-> v, user |-> signIn[v].user, at |-> signIn[v].made]}
  /\ Move(v, "trim")
  /\ UNCHANGED <<users, oauth, clock, disable, ended>>

(* Mutant of Kept: ORDER BY created_at, oldest first.                      *)
KeptOldest(u) ==
  {r \in Of(u) : Cardinality({o \in Of(u) : o.at < r.at}) < SessionCap}

(* ORDER BY created_at DESC LIMIT.                                         *)
Kept(u) ==
  {r \in Of(u) : Cardinality({o \in Of(u) : o.at > r.at}) < SessionCap}

TrimSessions(v) ==
  LET u == signIn[v].user
  IN /\ signIn[v].at = "trim"
     /\ rows' = (rows \ Of(u)) \cup Kept(u)
     /\ Move(v, "done")
     /\ UNCHANGED <<users, oauth, clock, disable, ended>>

Logout(r) ==
  /\ r \in rows /\ signIn[r.id].at = "done" /\ ~users[r.user].disabled
  /\ rows' = rows \ {r}
  /\ UNCHANGED <<users, oauth, signIn, clock, disable, ended>>

-----------------------------------------------------------------------------
(* get_session_user, require_admin: the row, and the account it joins.     *)
Serves(r) == r \in rows /\ signIn[r.id].at = "done" /\ ~users[r.user].disabled
Administers(r) == Serves(r) /\ users[r.user].admin

(* update_user with is_disabled: the UPDATE, then the DELETE.              *)
DisableUser(r, u) ==
  /\ Administers(r) /\ u \in DOMAIN users /\ disable = NoPatch
  /\ users' = [users EXCEPT ![u].disabled = TRUE]
  /\ disable' = [user |-> u, seen |-> {o.id : o \in Of(u)}]
  /\ UNCHANGED <<rows, oauth, signIn, clock, ended>>

(* Mutant of Swept: only the sessions of the administrator's own request.  *)
SweptNone(u) == rows

(* destroy_all_sessions.                                                   *)
Swept(u) == rows \ Of(u)

SweepSessions ==
  /\ disable # NoPatch
  /\ rows' = Swept(disable.user)
  /\ ended' = ended \cup disable.seen
  /\ disable' = NoPatch
  /\ UNCHANGED <<users, oauth, signIn, clock>>

(* The same route re-enables, and gives or takes the admin flag.           *)
EnableUser(r, u) ==
  /\ Administers(r) /\ u \in DOMAIN users /\ users[u].disabled
  /\ users' = [users EXCEPT ![u].disabled = FALSE]
  /\ UNCHANGED <<rows, oauth, signIn, clock, disable, ended>>

SetAdmin(r, u, flag) ==
  /\ Administers(r) /\ u \in DOMAIN users /\ users[u].admin # flag
  /\ users' = [users EXCEPT ![u].admin = flag]
  /\ UNCHANGED <<rows, oauth, signIn, clock, disable, ended>>

-----------------------------------------------------------------------------
AccountsTypeOK ==
  /\ DOMAIN users \subseteq Accounts
  /\ \A u \in DOMAIN users : users[u] \in [admin : BOOLEAN, disabled : BOOLEAN]
  /\ rows \subseteq [id : SignIns, user : Accounts, at : 1..Cardinality(SignIns)]
  /\ oauth \subseteq OauthStates

(* One OAuth state lets one callback through, however many arrive with it. *)
StateUsedOnce ==
  \A s \in OauthStates : Cardinality({v \in SignIns : signIn[v].state = s}) <= 1

(* "Cap the number of active sessions per user": over the cap are at most  *)
(* the sign-ins that have not trimmed yet.                                 *)
SessionsCapped ==
  \A u \in Accounts :
    Cardinality(Of(u)) <=
      SessionCap + Cardinality({v \in SignIns : signIn[v].at = "trim" /\ signIn[v].user = u})

(* A session of an account that an administrator has disabled never works  *)
(* again, not even once the account is enabled again: those that were there*)
(* are gone when the answer is, and until then the account refuses them.   *)
DisableEndsSessions == \A r \in rows : r.id \notin ended

SessionsHold == StateUsedOnce /\ SessionsCapped /\ DisableEndsSessions

(* Only a session that is older than SessionCap others of its account falls*)
(* to a sign-in, in whatever order the INSERTs came: the newest never does.*)
NewestSurvives ==
  [][(\E v \in SignIns : signIn[v].at = "trim" /\ signIn'[v].at = "done")
     => \A r \in rows \ rows' :
          Cardinality({o \in rows' : o.user = r.user /\ o.at > r.at}) >= SessionCap]_accountVars
=============================================================================
