------------------------------ MODULE Onboarding ------------------------------
(***************************************************************************)
(* How a principal gets into a workspace and out of it: the bootstrap      *)
(* token, invites, agent and passkey registration and revocation           *)
(* (core/internal/auth/onboarding.go, store.go, passkeys.go,               *)
(* passkey_sessions.go and the auth handlers of core/internal/server).     *)
(*                                                                         *)
(* A registration checks its token outside any transaction, reads the      *)
(* clock, and spends the token in a transaction that may have to wait for  *)
(* the database first; a passkey registration does so in two HTTP requests *)
(* with an in-memory session between them.  Between these steps other      *)
(* registrations, revocations, the clock and a restart interleave.  An     *)
(* administrative call is authenticated first and takes effect later.      *)
(* One transaction is one action: SQLite refuses a write that follows an   *)
(* outdated read of the same transaction.                                  *)
(***************************************************************************)
EXTENDS Naturals, FiniteSets

CONSTANTS
  Requests,    \* registration attempts; the principal one creates bears its name
  Invites,     \* rows of auth_invites
  Callers,     \* authenticated calls in flight
  Bootstrap,   \* the bootstrap token of the deployment
  NoOne,       \* no principal
  MaxTime,     \* bound: last value of the clock
  SessionTTL,  \* lifetime of a passkey session
  Lifetimes,   \* lifetimes given to invites; long ones end past MaxTime
  InviteKinds  \* kinds of the invites created

ASSUME OnboardingAssumption ==
  /\ Bootstrap \notin Invites
  /\ NoOne \notin Requests \cup Invites \cup {Bootstrap}
  /\ MaxTime \in Nat /\ SessionTTL \in Nat
  /\ Lifetimes \subseteq Nat \ {0}
  /\ InviteKinds \subseteq {"human", "agent", "any"}

VARIABLES
  now,          \* the clock, in whole seconds
  bootstrap,    \* consumer in auth_bootstrap_state
  invites,      \* invite -> its row
  principals,   \* request -> row of agents
  requests,     \* request -> handler or passkey session that carries it
  calls,        \* caller -> principal it was authenticated as
  lockout       \* history: the last human was revoked with allow_human_lockout

vars == <<now, bootstrap, invites, principals, requests, calls, lockout>>

Kinds == {"human", "agent"}
Tokens == Invites \cup {Bootstrap}
Never == MaxTime + 1
Smaller(a, b) == IF a < b THEN a ELSE b

Invite == [kind : InviteKinds, expires : 0..Never, by : Requests,
           consumer : Requests \cup {NoOne}, revoked : BOOLEAN]
NoInvite == [kind |-> "none"]

Principal == [kind : Kinds, admin : BOOLEAN, token : Tokens, revoked : BOOLEAN]
NoPrincipal == [kind |-> "none"]

\* expires is that of the passkey session, began the time a registration took.
Request == [step : {"session", "claimed", "begun"}, kind : Kinds, token : Tokens,
            expires : 0..Never, began : 0..MaxTime]
Idle == [step |-> "new"]
Over == [step |-> "done"]

TypeOK ==
  /\ now \in 0..MaxTime
  /\ bootstrap \in Requests \cup {NoOne}
  /\ invites \in [Invites -> Invite \cup {NoInvite}]
  /\ principals \in [Requests -> Principal \cup {NoPrincipal}]
  /\ requests \in [Requests -> Request \cup {Idle, Over}]
  /\ calls \in [Callers -> Requests \cup {NoOne}]
  /\ lockout \in BOOLEAN

Init ==
  /\ now = 0
  /\ bootstrap = NoOne
  /\ invites = [i \in Invites |-> NoInvite]
  /\ principals = [r \in Requests |-> NoPrincipal]
  /\ requests = [r \in Requests |-> Idle]
  /\ calls = [c \in Callers |-> NoOne]
  /\ lockout = FALSE

-----------------------------------------------------------------------------
(* An issued invite that may admit a principal of the kind. *)
Open(i, kind) ==
  /\ invites[i] # NoInvite
  /\ invites[i].consumer = NoOne
  /\ ~invites[i].revoked
  /\ invites[i].kind \in {"any", kind}

(* ResolveOnboardingClaim: while the bootstrap token is unspent nothing    *)
(* else is accepted.                                                       *)
Resolves(token, kind) ==
  \/ bootstrap = NoOne /\ token = Bootstrap
  \/ /\ bootstrap # NoOne
     /\ token \in Invites
     /\ Open(token, kind)
     /\ invites[token].expires > now

Active(p) == principals[p] # NoPrincipal /\ ~principals[p].revoked

(* Mutant: humans who were revoked are counted too. *)
ActiveHumans_WithRevoked ==
  {p \in Requests : principals[p] # NoPrincipal /\ principals[p].kind = "human"}

(* countActiveHumanPrincipalsTx *)
ActiveHumans == {p \in Requests : Active(p) /\ principals[p].kind = "human"}

(* Mutant: any authenticated principal may administer. *)
IsAuthAdmin_Anyone(p) == Active(p)

(* isAuthAdminPrincipal *)
IsAuthAdmin(p) == principals[p].admin \/ principals[p].kind = "human"

End(r) == requests' = [requests EXCEPT ![r] = Over]

-----------------------------------------------------------------------------
(* handleRegisterAgent up to the transaction of RegisterAgent.             *)
ClaimForAgent(r, token) ==
  /\ requests[r] = Idle
  /\ Resolves(token, "agent")
  /\ requests' = [requests EXCEPT ![r] =
       [step |-> "claimed", kind |-> "agent", token |-> token, expires |-> Never,
        began |-> 0]]
  /\ UNCHANGED <<now, bootstrap, invites, principals, calls, lockout>>

(* handlePasskeyRegisterOptions: the session keeps the claim. *)
PasskeyOptions(r, token) ==
  /\ requests[r] = Idle
  /\ Resolves(token, "human")
  /\ requests' = [requests EXCEPT ![r] =
       [step |-> "session", kind |-> "human", token |-> token,
        expires |-> Smaller(now + SessionTTL, Never), began |-> 0]]
  /\ UNCHANGED <<now, bootstrap, invites, principals, calls, lockout>>

(* handlePasskeyRegisterVerify up to the transaction: the session is       *)
(* consumed in any case, and the token presented again must resolve and be *)
(* the one the session began with.  The credential may be refused, too.    *)
PasskeyVerify(r, token) ==
  /\ requests[r].step = "session"
  /\ \/ /\ requests[r].expires >= now
        /\ Resolves(token, "human")
        /\ token = requests[r].token
        /\ requests' = [requests EXCEPT ![r].step = "claimed", ![r].expires = Never]
     \/ End(r)
  /\ UNCHANGED <<now, bootstrap, invites, principals, calls, lockout>>

(* reapExpired *)
Reap(r) ==
  /\ requests[r].step = "session"
  /\ requests[r].expires < now
  /\ End(r)
  /\ UNCHANGED <<now, bootstrap, invites, principals, calls, lockout>>

(* RegisterAgent and RegisterPasskeyAgent take the time before they begin  *)
(* the transaction.  An agent's registration is tried again, with a new    *)
(* time and the token checked before, when the database stayed busy.       *)
BeginRegister(r) ==
  /\ \/ requests[r].step = "claimed"
     \/ requests[r].step = "begun" /\ requests[r].kind = "agent"
  /\ requests' = [requests EXCEPT ![r].step = "begun", ![r].began = now]
  /\ UNCHANGED <<now, bootstrap, invites, principals, calls, lockout>>

(* The rows of the principal, its key or passkey and its first tokens. *)
Enroll(r) ==
  principals' = [principals EXCEPT ![r] =
    [kind |-> requests[r].kind, admin |-> requests[r].token = Bootstrap,
     token |-> requests[r].token, revoked |-> FALSE]]

(* Mutant: the UPDATE of the invite does not ask for consumed_at IS NULL.  *)
SpendInvite_Again(r) ==
  /\ requests[r].token \in Invites
  /\ ~invites[requests[r].token].revoked
  /\ invites[requests[r].token].expires >= requests[r].began
  /\ invites' = [invites EXCEPT ![requests[r].token].consumer = r]
  /\ UNCHANGED bootstrap
  /\ Enroll(r)

(* Mutant: ... nor for revoked_at IS NULL: the check before the            *)
(* transaction is trusted.                                                 *)
SpendInvite_Revoked(r) ==
  /\ requests[r].token \in Invites
  /\ invites[requests[r].token].consumer = NoOne
  /\ invites' = [invites EXCEPT ![requests[r].token].consumer = r]
  /\ UNCHANGED bootstrap
  /\ Enroll(r)

(* consumeOnboardingClaimTx for an invite, with the rest of the            *)
(* registration transaction.  The time is that at which the registration   *)
(* began, so one that waited may spend an invite after its expiry; and     *)
(* times are compared as text, where a whole second sorts after its        *)
(* fractions: an invite is still good in the second in which it expires.   *)
SpendInvite(r) ==
  /\ requests[r].token \in Invites
  /\ Open(requests[r].token, requests[r].kind)
  /\ invites[requests[r].token].expires >= requests[r].began
  /\ invites' = [invites EXCEPT ![requests[r].token].consumer = r]
  /\ UNCHANGED bootstrap
  /\ Enroll(r)

(* The same for the bootstrap token: its row is inserted once. *)
SpendBootstrap(r) ==
  /\ requests[r].token = Bootstrap
  /\ bootstrap = NoOne
  /\ bootstrap' = r
  /\ UNCHANGED invites
  /\ Enroll(r)

(* The transaction of RegisterAgent or RegisterPasskeyAgent: committed, or *)
(* rolled back because the token is not to be had any more, the username   *)
(* is taken, the database stays busy or the request is cancelled.          *)
Register(r) ==
  /\ requests[r].step = "begun"
  /\ \/ SpendInvite(r)
     \/ SpendBootstrap(r)
     \/ UNCHANGED <<bootstrap, invites, principals>>
  /\ End(r)
  /\ UNCHANGED <<now, calls, lockout>>

-----------------------------------------------------------------------------
(* requireAuthenticatedPrincipal: from here on the call acts as p, whatever *)
(* happens to p meanwhile.                                                 *)
Authenticate(c, p) ==
  /\ calls[c] = NoOne
  /\ Active(p)
  /\ calls' = [calls EXCEPT ![c] = p]
  /\ UNCHANGED <<now, bootstrap, invites, principals, requests, lockout>>

Return(c) == calls' = [calls EXCEPT ![c] = NoOne]

(* handleCreateInvite *)
CreateInvite(c, i, kind, life) ==
  /\ calls[c] # NoOne
  /\ IsAuthAdmin(calls[c])
  /\ invites[i] = NoInvite
  /\ invites' = [invites EXCEPT ![i] =
       [kind |-> kind, expires |-> Smaller(now + life, Never), by |-> calls[c],
        consumer |-> NoOne, revoked |-> FALSE]]
  /\ Return(c)
  /\ UNCHANGED <<now, bootstrap, principals, requests, lockout>>

(* handleRevokeInvite: a consumed invite may still be revoked. *)
RevokeInvite(c, i) ==
  /\ calls[c] # NoOne
  /\ IsAuthAdmin(calls[c])
  /\ invites[i] # NoInvite /\ ~invites[i].revoked
  /\ invites' = [invites EXCEPT ![i].revoked = TRUE]
  /\ Return(c)
  /\ UNCHANGED <<now, bootstrap, principals, requests, lockout>>

(* handleRevokePrincipal and handleRevokeCurrentAgent: the last active     *)
(* human is revoked with allow_human_lockout and in no other way, and the  *)
(* flag is accepted for nobody else.                                       *)
RevokePrincipal(c, p, allow) ==
  /\ calls[c] # NoOne
  /\ IsAuthAdmin(calls[c]) \/ calls[c] = p
  /\ Active(p)
  /\ allow <=> principals[p].kind = "human" /\ Cardinality(ActiveHumans) = 1
  /\ principals' = [principals EXCEPT ![p].revoked = TRUE]
  /\ lockout' = (lockout \/ allow)
  /\ Return(c)
  /\ UNCHANGED <<now, bootstrap, invites, requests>>

(* The call is answered without an effect. *)
EndCall(c) ==
  /\ calls[c] # NoOne
  /\ Return(c)
  /\ UNCHANGED <<now, bootstrap, invites, principals, requests, lockout>>

-----------------------------------------------------------------------------
Tick ==
  /\ now < MaxTime
  /\ now' = now + 1
  /\ UNCHANGED <<bootstrap, invites, principals, requests, calls, lockout>>

(* The server restarts: handlers, passkey sessions and calls are gone. *)
Restart ==
  /\ requests' = [r \in Requests |-> IF requests[r] = Idle THEN Idle ELSE Over]
  /\ calls' = [c \in Callers |-> NoOne]
  /\ UNCHANGED <<now, bootstrap, invites, principals, lockout>>

Next ==
  \/ \E r \in Requests :
       \/ \E token \in Tokens :
            ClaimForAgent(r, token) \/ PasskeyOptions(r, token) \/ PasskeyVerify(r, token)
       \/ Reap(r)
       \/ BeginRegister(r)
       \/ Register(r)
  \/ \E c \in Callers :
       \/ \E p \in Requests :
            \/ Authenticate(c, p)
            \/ \E allow \in BOOLEAN : RevokePrincipal(c, p, allow)
       \/ \E i \in Invites :
            \/ RevokeInvite(c, i)
            \/ \E kind \in InviteKinds, life \in Lifetimes :
                 CreateInvite(c, i, kind, life)
       \/ EndCall(c)
  \/ Tick
  \/ Restart

Spec == Init /\ [][Next]_vars

-----------------------------------------------------------------------------
(* A token admits at most one principal, however many registrations have   *)
(* checked it, and the row of the token names the principal it admitted.   *)
OneAdmissionPerToken ==
  /\ \A p \in Requests : principals[p] # NoPrincipal =>
       /\ principals[p].token = Bootstrap => bootstrap = p
       /\ principals[p].token \in Invites =>
            /\ invites[principals[p].token] # NoInvite
            /\ invites[principals[p].token].consumer = p
  /\ bootstrap # NoOne => principals[bootstrap] # NoPrincipal
  /\ \A i \in Invites : invites[i] # NoInvite /\ invites[i].consumer # NoOne =>
       /\ principals[invites[i].consumer] # NoPrincipal
       /\ principals[invites[i].consumer].token = i

(* Every invite was created by a human or by the bootstrap principal: an   *)
(* invited agent can neither invite nor revoke others.                     *)
InvitedByAuthority ==
  \A i \in Invites : invites[i] # NoInvite =>
    /\ principals[invites[i].by] # NoPrincipal
    /\ \/ principals[invites[i].by].kind = "human"
       \/ invites[i].by = bootstrap

(* Once a human has been admitted, a workspace is left without any active  *)
(* human only by a revocation that allowed it, also when two humans revoke *)
(* each other at the same time.                                            *)
HumanStays ==
  (\E p \in Requests : principals[p] # NoPrincipal /\ principals[p].kind = "human")
    => (\E p \in Requests : Active(p) /\ principals[p].kind = "human") \/ lockout

-----------------------------------------------------------------------------
(* Onboarding implements Admission: a token that is spent or revoked       *)
(* admits nobody even if its check came before, an invite admits nobody    *)
(* whose registration began a full second past its expiry, however early   *)
(* its check was, and a revoked principal never becomes active again.      *)
InviteState(invite, at) ==
  CASE invite = NoInvite -> "unissued"
    [] invite # NoInvite /\ invite.consumer # NoOne -> "spent"
    [] invite # NoInvite /\ invite.consumer = NoOne /\ invite.revoked -> "void"
    [] invite # NoInvite /\ invite.consumer = NoOne /\ ~invite.revoked /\ invite.expires < at -> "expired"
    [] OTHER -> "open"

TicketState(t) ==
  IF t # Bootstrap THEN InviteState(invites[t], now)
  ELSE IF bootstrap = NoOne THEN "open" ELSE "spent"

MemberState(p) ==
  IF principals[p] = NoPrincipal THEN "out"
  ELSE IF principals[p].revoked THEN "left" ELSE "in"

(* The ticket with which a registration began in time. *)
InTime(r) ==
  /\ requests[r].step = "begun"
  /\ requests[r].token \in Invites => invites[requests[r].token].expires >= requests[r].began

Door(r) == IF InTime(r) THEN requests[r].token ELSE NoOne

A == INSTANCE Admission WITH
       Tickets <- Tokens, Members <- Requests, FirstTicket <- Bootstrap, NoTicket <- NoOne,
       ticket <- [t \in Tokens |-> TicketState(t)],
       member <- [p \in Requests |-> MemberState(p)],
       door <- [r \in Requests |-> Door(r)]

ImplementsAdmission == A!AdmissionSpec

=============================================================================
