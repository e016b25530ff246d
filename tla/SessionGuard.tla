---------------------------- MODULE SessionGuard ----------------------------
(***************************************************************************)
(* SessionBoundKeyGuard of security/session_guard.ts: session bindings     *)
(* (JWT + cookie, one hour), shares wrapped under them, and the            *)
(* asynchronous unwrap, which checks the session first and decrypts after  *)
(* two awaits.                                                             *)
(*                                                                         *)
(* The n-th call of createSessionBinding issues token n, standing for the  *)
(* fresh JWT and cookie it draws; a caller may present the JWT of one      *)
(* token with the cookie of another.  A wrapped share records the session  *)
(* and token its binding hash and its key were derived from.               *)
(***************************************************************************)
EXTENDS Integers, FiniteSets

CONSTANTS SessionId,   \* session names
          UnwrapCall,  \* identities for the unwrap calls in flight
          Absent,      \* no session, no call
          TTL,         \* SESSION_TTL_MS in ticks
          MaxTime,     \* bound: the clock stops there
          MaxTokens    \* bound: calls of createSessionBinding

ASSUME GuardAssumption ==
    /\ TTL \in Nat /\ MaxTime \in Nat /\ MaxTokens \in Nat
    /\ Absent \notin SessionId \X Nat

VARIABLES
    now,       \* Date.now() in ticks
    issued,    \* tokens issued so far
    sessions,  \* activeSessions: sessions[s] = [token, expiresAt] or Absent
    wrapped,   \* shares callers keep, as <<session, token>> they are bound to
    call       \* call[c]: the unwrap in flight, or Absent

guardVars == <<now, issued, sessions, wrapped, call>>

Token == 1..MaxTokens

GuardInit ==
    /\ now = 0
    /\ issued = 0
    /\ sessions = [s \in SessionId |-> Absent]
    /\ wrapped = {}
    /\ call = [c \in UnwrapCall |-> Absent]

Expired(b) == b.expiresAt < now

-----------------------------------------------------------------------------
\* Mutant: a live or expired entry keeps its tokens and is only prolonged.
CreateSessionBinding_Prolongs(s) ==
    /\ issued < MaxTokens
    /\ issued' = issued + 1
    /\ sessions' = [sessions EXCEPT ![s] =
           [token |-> IF @ # Absent THEN @.token ELSE issued + 1,
            expiresAt |-> now + TTL]]
    /\ UNCHANGED <<now, wrapped, call>>

\* createSessionBinding(s): replaces any binding s had.
CreateSessionBinding(s) ==
    /\ issued < MaxTokens
    /\ issued' = issued + 1
    /\ sessions' = [sessions EXCEPT ![s] = [token |-> issued + 1,
                                            expiresAt |-> now + TTL]]
    /\ UNCHANGED <<now, wrapped, call>>

\* wrapShareWithSessionTokens(tokens).  It looks at no session: the binding may
\* be long dead, and nothing ties the caller's tokens.sessionId to its tokens.
WrapShare(s, t) ==
    /\ t <= issued
    /\ wrapped' = wrapped \cup {<<s, t>>}
    /\ UNCHANGED <<now, issued, sessions, call>>

\* Mutant: the expiry is not looked at.
SessionAccepts_Expired(s, jwt, cookie) ==
    /\ sessions[s] # Absent
    /\ sessions[s].token = jwt
    /\ sessions[s].token = cookie

\* Steps 1 and 2 of unwrapShareWithSessionTokens.
SessionAccepts(s, jwt, cookie) ==
    /\ sessions[s] # Absent
    /\ ~Expired(sessions[s])
    /\ sessions[s].token = jwt
    /\ sessions[s].token = cookie

\* Step 3: the binding hash of the share is that of the tokens presented.
BindingMatches(b, s, jwt, cookie) ==
    b = <<s, jwt>> /\ jwt = cookie

\* unwrapShareWithSessionTokens up to its first await.
UnwrapBegin(c, b, s, jwt, cookie) ==
    /\ call[c] = Absent
    /\ SessionAccepts(s, jwt, cookie)
    /\ BindingMatches(b, s, jwt, cookie)
    /\ call' = [call EXCEPT ![c] = b]
    /\ UNCHANGED <<now, issued, sessions, wrapped>>

\* The awaits return: the key derived from the tokens opens the ciphertext,
\* or the authentication tag fails.  Either way the call ends.
UnwrapFinish(c) ==
    /\ call[c] # Absent
    /\ call' = [call EXCEPT ![c] = Absent]
    /\ UNCHANGED <<now, issued, sessions, wrapped>>

RevokeSession(s) ==
    /\ sessions[s] # Absent
    /\ sessions' = [sessions EXCEPT ![s] = Absent]
    /\ UNCHANGED <<now, issued, wrapped, call>>

CleanupExpiredSessions ==
    /\ sessions' = [s \in SessionId |->
                       IF sessions[s] # Absent /\ Expired(sessions[s])
                       THEN Absent ELSE sessions[s]]
    /\ UNCHANGED <<now, issued, wrapped, call>>

Tick ==
    /\ now < MaxTime
    /\ now' = now + 1
    /\ UNCHANGED <<issued, sessions, wrapped, call>>

GuardNext ==
    \/ \E s \in SessionId : CreateSessionBinding(s) \/ RevokeSession(s)
    \/ \E s \in SessionId, t \in Token : WrapShare(s, t)
    \/ \E c \in UnwrapCall, b \in wrapped, s \in SessionId, jwt, cookie \in Token :
           UnwrapBegin(c, b, s, jwt, cookie)
    \/ \E c \in UnwrapCall : UnwrapFinish(c)
    \/ CleanupExpiredSessions
    \/ Tick

GuardSpec == GuardInit /\ [][GuardNext]_guardVars

\* importKey and decrypt return; callers owe nothing.
GuardFairness == \A c \in UnwrapCall : WF_guardVars(UnwrapFinish(c))

GuardFairSpec == GuardSpec /\ GuardFairness

-----------------------------------------------------------------------------
(* Properties *)

\* The session and token of binding b are the live ones.
Live(b) ==
    /\ sessions[b[1]] # Absent
    /\ sessions[b[1]].token = b[2]
    /\ ~Expired(sessions[b[1]])

\* A share is closed for good once its binding is dead.  An unwrap that passed
\* the session check may still return the share after a revocation, an expiry
\* or a replacement, but these calls run out, and whatever names, tokens and
\* cookies are presented later no further call gets past the check.
DeadStaysClosed ==
    \A s \in SessionId, t \in Token :
        (t <= issued /\ ~Live(<<s, t>>)) ~> [](\A c \in UnwrapCall : call[c] # <<s, t>>)

\* A binding that has died never lives again: a session name that is created
\* anew, before or after expiry, revocation or cleanup, does not revive the
\* shares of its predecessors.
DeadStaysDead ==
    [][\A s \in SessionId, t \in 1..issued : ~Live(<<s, t>>) => ~Live(<<s, t>>)']_guardVars

=============================================================================
