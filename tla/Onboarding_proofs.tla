--------------------------- MODULE Onboarding_proofs ---------------------------
(***************************************************************************)
(* Proofs about Onboarding, for any number of registrations, invites and   *)
(* calls, and any lifetimes.                                               *)
(***************************************************************************)
EXTENDS Onboarding, FiniteSetTheorems, TLAPS

-----------------------------------------------------------------------------
(* The inductive invariant. *)

(* A registration creates its principal as its last step. *)
FreshUntilDone == \A r \in Requests : requests[r] # Over => principals[r] = NoPrincipal

(* A call was authenticated as somebody. *)
CallsOfMembers == \A c \in Callers : calls[c] # NoOne => principals[calls[c]] # NoPrincipal

(* The admin flag belongs to the bootstrap principal. *)
AdminByBootstrap ==
  \A p \in Requests : principals[p] # NoPrincipal /\ principals[p].admin => bootstrap = p

OInv ==
  /\ TypeOK
  /\ FreshUntilDone
  /\ CallsOfMembers
  /\ AdminByBootstrap
  /\ OneAdmissionPerToken
  /\ InvitedByAuthority
  /\ HumanStays

(* The values that stand for "none" are none of the rows. *)
LEMMA NoneIsNoRow ==
  /\ NoInvite \notin Invite
  /\ NoPrincipal \notin Principal
  /\ Idle \notin Request /\ Over \notin Request /\ Idle # Over
  BY OnboardingAssumption DEF NoInvite, Invite, NoPrincipal, Principal, Kinds, Idle, Over, Request

LEMMA SmallerIsCapped ==
  ASSUME NEW n \in Nat, n <= MaxTime, NEW d \in Nat
  PROVE  Smaller(n + d, Never) \in 0..Never /\ n <= Smaller(n + d, Never)
  BY OnboardingAssumption DEF Smaller, Never

LEMMA InitOK == Init => OInv
<1> SUFFICES ASSUME Init PROVE OInv
  OBVIOUS
<1>1. TypeOK
  <2>1. now \in 0..MaxTime /\ bootstrap \in Requests \cup {NoOne}
    BY OnboardingAssumption DEF Init
  <2>4. lockout \in BOOLEAN
    BY DEF Init
  <2>2. /\ invites \in [Invites -> Invite \cup {NoInvite}]
        /\ principals \in [Requests -> Principal \cup {NoPrincipal}]
    BY DEF Init
  <2>3. /\ requests \in [Requests -> Request \cup {Idle, Over}]
        /\ calls \in [Callers -> Requests \cup {NoOne}]
    BY DEF Init
  <2> QED BY <2>1, <2>2, <2>3, <2>4 DEF TypeOK
<1>2. \A p \in Requests : principals[p] = NoPrincipal
  BY DEF Init
<1>3. FreshUntilDone /\ CallsOfMembers /\ AdminByBootstrap
  BY <1>2 DEF Init, FreshUntilDone, CallsOfMembers, AdminByBootstrap
<1>4. OneAdmissionPerToken /\ InvitedByAuthority /\ HumanStays
  BY <1>2 DEF Init, OneAdmissionPerToken, InvitedByAuthority, HumanStays
<1> QED BY <1>1, <1>3, <1>4 DEF OInv

(* What a step of a registration before its transaction changes. *)
LEMMA RequestStep ==
  ASSUME OInv, NEW r \in Requests, NEW value \in Request \cup {Idle, Over},
         requests[r] # Over, requests' = [requests EXCEPT ![r] = value],
         UNCHANGED <<now, bootstrap, invites, principals, calls, lockout>>
  PROVE  OInv'
  BY DEF OInv, TypeOK, FreshUntilDone, CallsOfMembers, AdminByBootstrap, OneAdmissionPerToken,
     InvitedByAuthority, HumanStays, Active

(* What an answered call changes that has no effect. *)
LEMMA CallStep ==
  ASSUME OInv, NEW c \in Callers, NEW value \in Requests \cup {NoOne},
         value # NoOne => principals[value] # NoPrincipal,
         calls' = [calls EXCEPT ![c] = value],
         UNCHANGED <<now, bootstrap, invites, principals, requests, lockout>>
  PROVE  OInv'
  BY DEF OInv, TypeOK, FreshUntilDone, CallsOfMembers, AdminByBootstrap, OneAdmissionPerToken,
     InvitedByAuthority, HumanStays, Active

LEMMA RequestSteps ==
  ASSUME OInv, NEW r \in Requests, NEW token \in Tokens,
         ClaimForAgent(r, token) \/ PasskeyOptions(r, token) \/ PasskeyVerify(r, token) \/ Reap(r)
  PROVE  OInv'
<1> USE NoneIsNoRow
<1>1. CASE ClaimForAgent(r, token)
  <2>1. [step |-> "claimed", kind |-> "agent", token |-> token, expires |-> Never,
         began |-> 0] \in Request
    BY OnboardingAssumption DEF Request, Kinds, Never
  <2> QED BY <1>1, <2>1, RequestStep DEF ClaimForAgent
<1>2. CASE PasskeyOptions(r, token)
  <2>1. Smaller(now + SessionTTL, Never) \in 0..Never
    BY SmallerIsCapped, OnboardingAssumption DEF OInv, TypeOK
  <2>2. [step |-> "session", kind |-> "human", token |-> token,
         expires |-> Smaller(now + SessionTTL, Never), began |-> 0] \in Request
    BY <2>1, OnboardingAssumption DEF Request, Kinds
  <2> QED BY <1>2, <2>2, RequestStep DEF PasskeyOptions
<1>3. CASE PasskeyVerify(r, token)
  <2>1. requests[r] \in Request
    BY <1>3 DEF PasskeyVerify, OInv, TypeOK, Idle, Over
  <2>2. [requests[r] EXCEPT !.step = "claimed", !.expires = Never] \in Request
    <3>1. Never \in 0..Never
      BY OnboardingAssumption DEF Never
    <3> QED BY <2>1, <3>1 DEF Request
  <2>3. CASE requests' = [requests EXCEPT ![r].step = "claimed", ![r].expires = Never]
    <3>1. requests' = [requests EXCEPT ![r] = [requests[r] EXCEPT !.step = "claimed", !.expires = Never]]
      BY <2>3
    <3> QED BY <1>3, <2>1, <2>2, <3>1, RequestStep DEF PasskeyVerify
  <2>4. CASE End(r)
    BY <1>3, <2>1, <2>4, RequestStep DEF PasskeyVerify, End
  <2> QED BY <1>3, <2>3, <2>4 DEF PasskeyVerify
<1>4. CASE Reap(r)
  <2>1. requests[r] # Over
    BY <1>4 DEF Reap, Over
  <2> QED BY <1>4, <2>1, RequestStep DEF Reap, End
<1> QED BY <1>1, <1>2, <1>3, <1>4

LEMMA BeginStep ==
  ASSUME OInv, NEW r \in Requests, BeginRegister(r)
  PROVE  OInv'
<1> USE NoneIsNoRow
<1>1. requests[r] \in Request
  BY DEF BeginRegister, OInv, TypeOK, Idle, Over
<1>2. PICK value : value = [requests[r] EXCEPT !.step = "begun", !.began = now]
  OBVIOUS
<1>3. value \in Request
  BY <1>1, <1>2 DEF Request, OInv, TypeOK
<1>4. requests' = [requests EXCEPT ![r] = value]
  BY <1>2 DEF BeginRegister
<1> QED BY <1>1, <1>3, <1>4, RequestStep DEF BeginRegister

(* The registration transaction. *)
LEMMA RegisterStep ==
  ASSUME OInv, NEW r \in Requests, Register(r)
  PROVE  OInv'
<1> USE NoneIsNoRow
<1>1. requests[r] \in Request /\ requests[r] # Over
  BY DEF Register, OInv, TypeOK, Idle, Over
<1>2. principals[r] = NoPrincipal
  BY <1>1 DEF OInv, FreshUntilDone
<1>3. /\ requests' \in [Requests -> Request \cup {Idle, Over}] /\ requests'[r] = Over
      /\ \A q \in Requests \ {r} : requests'[q] = requests[q]
  BY DEF Register, End, OInv, TypeOK
<1> DEFINE row == [kind |-> requests[r].kind, admin |-> requests[r].token = Bootstrap,
                   token |-> requests[r].token, revoked |-> FALSE]
<1>4. row \in Principal
  BY <1>1 DEF Request, Principal
<1>5. CASE UNCHANGED <<bootstrap, invites, principals>>
  BY <1>3, <1>5 DEF Register, OInv, TypeOK, FreshUntilDone, CallsOfMembers, AdminByBootstrap,
     OneAdmissionPerToken, InvitedByAuthority, HumanStays, Active
<1>6. ASSUME Enroll(r) PROVE
        /\ principals' \in [Requests -> Principal \cup {NoPrincipal}]
        /\ principals'[r] = row
        /\ \A q \in Requests \ {r} : principals'[q] = principals[q]
        /\ FreshUntilDone' /\ CallsOfMembers' /\ HumanStays'
  <2>1. /\ principals' = [principals EXCEPT ![r] = row]
        /\ principals \in [Requests -> Principal \cup {NoPrincipal}]
    BY <1>6 DEF Enroll, OInv, TypeOK
  <2>2. /\ principals' \in [Requests -> Principal \cup {NoPrincipal}]
        /\ principals'[r] = row /\ row # NoPrincipal
        /\ \A q \in Requests \ {r} : principals'[q] = principals[q]
    BY <2>1, <1>4
  <2>3. FreshUntilDone' /\ CallsOfMembers'
    BY <2>2, <1>3 DEF Register, OInv, TypeOK, FreshUntilDone, CallsOfMembers
  <2>4. HumanStays'
    <3>1. SUFFICES ASSUME NEW p \in Requests, principals'[p] # NoPrincipal,
                          principals'[p].kind = "human", ~lockout
                   PROVE  \E q \in Requests : Active(q)' /\ principals'[q].kind = "human"
      BY DEF HumanStays, Register
    <3>2. CASE p = r
      BY <2>2, <3>1, <3>2 DEF Active
    <3>3. CASE p # r
      <4>1. PICK q \in Requests : Active(q) /\ principals[q].kind = "human"
        BY <2>2, <3>1, <3>3 DEF OInv, HumanStays
      <4>2. q # r
        BY <1>2, <4>1 DEF Active
      <4> QED BY <2>2, <4>1, <4>2 DEF Active
    <3> QED BY <3>2, <3>3
  <2> QED BY <2>2, <2>3, <2>4
<1>7. CASE SpendBootstrap(r)
  <2>1. /\ Enroll(r) /\ requests[r].token = Bootstrap /\ bootstrap = NoOne
        /\ bootstrap' = r /\ UNCHANGED <<invites, now, calls, lockout>>
    BY <1>7 DEF SpendBootstrap, Register
  <2>2. TypeOK'
    BY <1>3, <1>6, <2>1 DEF OInv, TypeOK
  <2>3. AdminByBootstrap'
    BY <1>6, <2>1, OnboardingAssumption DEF OInv, AdminByBootstrap
  <2>4. OneAdmissionPerToken'
    <3>1. \A i \in Invites : invites[i] # NoInvite /\ invites[i].consumer # NoOne => invites[i].consumer # r
      BY <1>2 DEF OInv, OneAdmissionPerToken
    <3>2. \A i \in Invites : invites[i] # NoInvite => invites[i].consumer \in Requests \cup {NoOne}
      BY DEF OInv, TypeOK, Invite
    <3>3. \A p \in Requests : principals[p] # NoPrincipal => principals[p].token # Bootstrap
      <4>1. \A p \in Requests : principals[p] # NoPrincipal /\ principals[p].token = Bootstrap => bootstrap = p
        BY DEF OInv, OneAdmissionPerToken
      <4>2. bootstrap = NoOne /\ NoOne \notin Requests
        BY <1>7, OnboardingAssumption DEF SpendBootstrap
      <4> QED BY <4>1, <4>2
    <3>4. row # NoPrincipal /\ row.token = Bootstrap /\ Bootstrap \notin Invites /\ r # NoOne
      BY <1>4, <2>1, OnboardingAssumption
    <3>5. \A p \in Requests : principals'[p] # NoPrincipal =>
            /\ principals'[p].token = Bootstrap => bootstrap' = p
            /\ principals'[p].token \in Invites =>
                 /\ invites'[principals'[p].token] # NoInvite
                 /\ invites'[principals'[p].token].consumer = p
      BY <1>6, <2>1, <3>3, <3>4 DEF OInv, OneAdmissionPerToken
    <3>6. bootstrap' # NoOne => principals'[bootstrap'] # NoPrincipal
      BY <1>6, <2>1, <3>4
    <3>7. \A j \in Invites : invites'[j] # NoInvite /\ invites'[j].consumer # NoOne =>
            /\ principals'[invites'[j].consumer] # NoPrincipal
            /\ principals'[invites'[j].consumer].token = j
      BY <1>6, <2>1, <3>1, <3>2 DEF OInv, OneAdmissionPerToken
    <3> QED BY <3>5, <3>6, <3>7 DEF OneAdmissionPerToken
  <2>5. InvitedByAuthority'
    <3>1. \A i \in Invites : invites[i] # NoInvite =>
            /\ invites[i].by \in Requests /\ invites[i].by # r
      BY <1>2 DEF OInv, TypeOK, Invite, InvitedByAuthority
    <3> QED BY <1>6, <2>1, <3>1, OnboardingAssumption DEF OInv, InvitedByAuthority
  <2> QED BY <1>6, <2>1, <2>2, <2>3, <2>4, <2>5 DEF OInv
<1>8. CASE SpendInvite(r)
  <2> DEFINE i == requests[r].token
  <2>1. /\ Enroll(r) /\ i \in Invites /\ Open(i, requests[r].kind)
        /\ invites' = [invites EXCEPT ![i].consumer = r]
        /\ UNCHANGED <<bootstrap, now, calls, lockout>>
    BY <1>8 DEF SpendInvite, Register
  <2>2. invites[i] \in Invite /\ invites[i].consumer = NoOne
    BY <2>1 DEF Open, OInv, TypeOK
  <2>3. /\ invites' \in [Invites -> Invite \cup {NoInvite}]
        /\ invites'[i] \in Invite /\ invites'[i].consumer = r /\ invites'[i].by = invites[i].by
        /\ \A j \in Invites \ {i} : invites'[j] = invites[j]
    BY <2>1, <2>2 DEF OInv, TypeOK, Invite
  <2>4. TypeOK'
    BY <1>3, <1>6, <2>1, <2>3 DEF OInv, TypeOK
  <2>5. AdminByBootstrap'
    <3>1. i # Bootstrap
      BY <2>1, OnboardingAssumption
    <3>2. ~principals'[r].admin
      <4>1. row.admin = (i = Bootstrap)
        BY Zenon
      <4>2. principals'[r] = row
        BY <1>6, <2>1
      <4> QED BY <3>1, <4>1, <4>2, Zenon
    <3> QED BY <1>6, <2>1, <3>2 DEF OInv, AdminByBootstrap
  <2>6. OneAdmissionPerToken'
    <3>1. \A p \in Requests \ {r} : principals[p] # NoPrincipal => principals[p].token # i
      BY <2>1, <2>2, OnboardingAssumption DEF OInv, OneAdmissionPerToken
    <3>2. \A j \in Invites : invites[j] # NoInvite /\ invites[j].consumer # NoOne =>
             invites[j].consumer \in Requests /\ invites[j].consumer # r
      BY <1>2 DEF OInv, TypeOK, Invite, OneAdmissionPerToken
    <3>3. bootstrap # r /\ bootstrap \in Requests \cup {NoOne}
      BY <1>2, OnboardingAssumption DEF OInv, OneAdmissionPerToken, TypeOK
    <3>4. row # NoPrincipal /\ row.token = i /\ i # Bootstrap
      BY <1>4, <2>1, OnboardingAssumption
    <3>5. \A p \in Requests : principals'[p] # NoPrincipal =>
            /\ principals'[p].token = Bootstrap => bootstrap' = p
            /\ principals'[p].token \in Invites =>
                 /\ invites'[principals'[p].token] # NoInvite
                 /\ invites'[principals'[p].token].consumer = p
      BY <1>6, <2>1, <2>3, <3>1, <3>4 DEF OInv, OneAdmissionPerToken
    <3>6. bootstrap' # NoOne => principals'[bootstrap'] # NoPrincipal
      BY <1>6, <2>1, <3>3 DEF OInv, OneAdmissionPerToken
    <3>7. ASSUME NEW j \in Invites, invites'[j] # NoInvite, invites'[j].consumer # NoOne
          PROVE  /\ principals'[invites'[j].consumer] # NoPrincipal
                 /\ principals'[invites'[j].consumer].token = j
      <4>1. CASE j = i
        BY <1>6, <2>1, <2>3, <3>4, <4>1
      <4>2. CASE j # i
        BY <1>6, <2>1, <2>3, <3>2, <3>7, <4>2 DEF OInv, OneAdmissionPerToken
      <4> QED BY <4>1, <4>2
    <3> QED BY <3>5, <3>6, <3>7 DEF OneAdmissionPerToken
  <2>7. InvitedByAuthority'
    <3>1. \A j \in Invites : invites[j] # NoInvite =>
            /\ invites[j].by \in Requests /\ invites[j].by # r
      BY <1>2 DEF OInv, TypeOK, Invite, InvitedByAuthority
    <3> QED BY <1>6, <2>1, <2>2, <2>3, <3>1 DEF OInv, InvitedByAuthority
  <2> QED BY <1>6, <2>1, <2>4, <2>5, <2>6, <2>7 DEF OInv
<1> QED BY <1>5, <1>7, <1>8 DEF Register

(* Administrative calls. *)
LEMMA CreateInviteStep ==
  ASSUME OInv, NEW c \in Callers, NEW i \in Invites, NEW kind \in InviteKinds, NEW life \in Lifetimes,
         CreateInvite(c, i, kind, life)
  PROVE  OInv'
<1> USE NoneIsNoRow
<1> DEFINE row == [kind |-> kind, expires |-> Smaller(now + life, Never), by |-> calls[c],
                   consumer |-> NoOne, revoked |-> FALSE]
<1>1. /\ calls[c] \in Requests /\ principals[calls[c]] # NoPrincipal /\ IsAuthAdmin(calls[c])
      /\ invites[i] = NoInvite /\ invites' = [invites EXCEPT ![i] = row]
      /\ calls' = [calls EXCEPT ![c] = NoOne]
      /\ UNCHANGED <<now, bootstrap, principals, requests, lockout>>
  BY DEF CreateInvite, Return, OInv, TypeOK, CallsOfMembers
<1>2. life \in Nat /\ now \in Nat /\ now <= MaxTime
  BY OnboardingAssumption DEF OInv, TypeOK
<1>3. row \in Invite
  BY <1>1, <1>2, SmallerIsCapped DEF Invite
<1>4. invites' \in [Invites -> Invite \cup {NoInvite}]
  BY <1>1, <1>3 DEF OInv, TypeOK
<1>5. /\ invites'[i] = row
      /\ \A j \in Invites \ {i} : invites'[j] = invites[j]
  BY <1>1 DEF OInv, TypeOK
<1>6. TypeOK' /\ CallsOfMembers'
  BY <1>1, <1>4 DEF OInv, TypeOK, CallsOfMembers
<1>7. FreshUntilDone' /\ AdminByBootstrap' /\ HumanStays'
  BY <1>1 DEF OInv, FreshUntilDone, AdminByBootstrap, HumanStays, Active
<1>8. OneAdmissionPerToken'
  <2>1. \A p \in Requests : principals[p] # NoPrincipal => principals[p].token # i
    BY <1>1 DEF OInv, OneAdmissionPerToken
  <2> QED BY <1>1, <1>5, <2>1 DEF OInv, OneAdmissionPerToken
<1>9. InvitedByAuthority'
  <2>1. principals[calls[c]].kind = "human" \/ calls[c] = bootstrap
    BY <1>1 DEF IsAuthAdmin, OInv, AdminByBootstrap
  <2>2. ASSUME NEW j \in Invites, invites'[j] # NoInvite
        PROVE  /\ principals'[invites'[j].by] # NoPrincipal
               /\ principals'[invites'[j].by].kind = "human" \/ invites'[j].by = bootstrap'
    <3>1. CASE j = i
      BY <1>1, <1>5, <2>1, <3>1
    <3>2. CASE j # i
      BY <1>1, <1>5, <2>2, <3>2 DEF OInv, InvitedByAuthority
    <3> QED BY <3>1, <3>2
  <2> QED BY <2>2 DEF InvitedByAuthority
<1> QED BY <1>6, <1>7, <1>8, <1>9 DEF OInv

LEMMA RevokeInviteStep ==
  ASSUME OInv, NEW c \in Callers, NEW i \in Invites, RevokeInvite(c, i)
  PROVE  OInv'
<1> USE NoneIsNoRow
<1>1. /\ invites[i] \in Invite /\ invites' = [invites EXCEPT ![i] = [invites[i] EXCEPT !.revoked = TRUE]]
      /\ calls' = [calls EXCEPT ![c] = NoOne]
      /\ UNCHANGED <<now, bootstrap, principals, requests, lockout>>
  BY DEF RevokeInvite, Return, OInv, TypeOK
<1>2. /\ invites'[i] = [invites[i] EXCEPT !.revoked = TRUE]
      /\ \A j \in Invites \ {i} : invites'[j] = invites[j]
  BY <1>1 DEF OInv, TypeOK
<1>3. [invites[i] EXCEPT !.revoked = TRUE] \in Invite
  BY <1>1 DEF Invite
<1>4. \A j \in Invites :
        /\ invites'[j] # NoInvite <=> invites[j] # NoInvite
        /\ invites[j] # NoInvite =>
             invites'[j].by = invites[j].by /\ invites'[j].consumer = invites[j].consumer
  BY ZenonT(40), <1>1, <1>2, <1>3 DEF Invite
<1>5. TypeOK' /\ CallsOfMembers'
  BY <1>1, <1>3 DEF OInv, TypeOK, CallsOfMembers
<1>6. FreshUntilDone' /\ AdminByBootstrap' /\ HumanStays'
  BY <1>1 DEF OInv, FreshUntilDone, AdminByBootstrap, HumanStays, Active
<1>7. OneAdmissionPerToken' /\ InvitedByAuthority'
  BY <1>1, <1>4 DEF OInv, OneAdmissionPerToken, InvitedByAuthority
<1> QED BY <1>5, <1>6, <1>7 DEF OInv

(* The row of a principal changes in its revocation mark only. *)
LEMMA RevokedRow ==
  ASSUME OInv, NEW p \in Requests, Active(p),
         principals' = [principals EXCEPT ![p].revoked = TRUE]
  PROVE  /\ principals' \in [Requests -> Principal \cup {NoPrincipal}]
         /\ \A q \in Requests :
              /\ principals'[q] # NoPrincipal <=> principals[q] # NoPrincipal
              /\ principals[q] # NoPrincipal =>
                   /\ principals'[q].kind = principals[q].kind
                   /\ principals'[q].token = principals[q].token
                   /\ principals'[q].admin = principals[q].admin
              /\ q # p => principals'[q] = principals[q]
         /\ principals'[p].revoked
<1> USE NoneIsNoRow
<1>1. principals[p] \in Principal
  BY DEF Active, OInv, TypeOK
<1>2. [principals[p] EXCEPT !.revoked = TRUE] \in Principal
  BY <1>1 DEF Principal
<1>3. /\ principals'[p] = [principals[p] EXCEPT !.revoked = TRUE]
      /\ \A q \in Requests \ {p} : principals'[q] = principals[q]
      /\ principals' \in [Requests -> Principal \cup {NoPrincipal}]
  BY <1>2 DEF OInv, TypeOK
<1>4. /\ principals'[p].kind = principals[p].kind /\ principals'[p].token = principals[p].token
      /\ principals'[p].revoked
  BY <1>1, <1>3 DEF Principal
<1>5. principals'[p].admin = principals[p].admin
  BY <1>1, <1>3, Zenon DEF Principal
<1> QED BY <1>1, <1>2, <1>3, <1>4, <1>5

LEMMA RevokePrincipalStep ==
  ASSUME OInv, NEW c \in Callers, NEW p \in Requests, NEW allow \in BOOLEAN,
         RevokePrincipal(c, p, allow)
  PROVE  OInv'
<1>1. /\ Active(p) /\ principals' = [principals EXCEPT ![p].revoked = TRUE]
      /\ calls' = [calls EXCEPT ![c] = NoOne]
      /\ lockout' = (lockout \/ allow)
      /\ UNCHANGED <<now, bootstrap, invites, requests>>
  BY DEF RevokePrincipal, Return
<1>2. /\ principals' \in [Requests -> Principal \cup {NoPrincipal}]
      /\ \A q \in Requests :
           /\ principals'[q] # NoPrincipal <=> principals[q] # NoPrincipal
           /\ principals[q] # NoPrincipal =>
                /\ principals'[q].kind = principals[q].kind
                /\ principals'[q].token = principals[q].token
                /\ principals'[q].admin = principals[q].admin
           /\ q # p => principals'[q] = principals[q]
  BY <1>1, RevokedRow
<1>3. lockout' \in BOOLEAN
  BY <1>1
<1>4. TypeOK'
  BY <1>1, <1>2, <1>3 DEF OInv, TypeOK
<1>5. FreshUntilDone' /\ CallsOfMembers'
  BY <1>1, <1>2 DEF OInv, TypeOK, FreshUntilDone, CallsOfMembers
<1>6. AdminByBootstrap'
  BY <1>1, <1>2 DEF OInv, AdminByBootstrap
<1>7. OneAdmissionPerToken'
  <2>1. bootstrap # NoOne => bootstrap \in Requests
    BY DEF OInv, TypeOK
  <2>2. \A i \in Invites : invites[i] # NoInvite => invites[i].consumer \in Requests \cup {NoOne}
    BY DEF OInv, TypeOK, Invite
  <2> QED BY <1>1, <1>2, <2>1, <2>2 DEF OInv, OneAdmissionPerToken
<1>8. InvitedByAuthority'
  <2>1. \A i \in Invites : invites[i] # NoInvite => invites[i].by \in Requests
    BY DEF OInv, TypeOK, Invite
  <2> QED BY <1>1, <1>2, <2>1 DEF OInv, InvitedByAuthority
<1>9. HumanStays'
  <2>1. SUFFICES ASSUME NEW h \in Requests, principals'[h] # NoPrincipal,
                        principals'[h].kind = "human", ~lockout'
                 PROVE  \E q \in Requests : Active(q)' /\ principals'[q].kind = "human"
    BY DEF HumanStays
  <2>2. ~lockout /\ ~allow
    BY <1>1, <2>1
  <2>3. PICK q \in Requests : Active(q) /\ principals[q].kind = "human"
    BY <1>2, <2>1, <2>2 DEF OInv, HumanStays
  <2>4. CASE principals[p].kind = "human"
    <3>1. Cardinality(ActiveHumans) # 1
      BY <2>2, <2>4 DEF RevokePrincipal
    <3>2. ActiveHumans # {p}
      BY <3>1, FS_Singleton
    <3>3. p \in ActiveHumans
      BY <1>1, <2>4 DEF ActiveHumans
    <3>4. PICK s \in ActiveHumans : s # p
      BY <3>2, <3>3
    <3> QED BY <1>2, <3>4 DEF ActiveHumans, Active
  <2>5. CASE principals[p].kind # "human"
    BY <1>2, <2>3, <2>5 DEF Active
  <2> QED BY <2>4, <2>5
<1> QED BY <1>4, <1>5, <1>6, <1>7, <1>8, <1>9 DEF OInv

LEMMA RestartStep == OInv /\ Restart => OInv'
<1> SUFFICES ASSUME OInv, Restart PROVE OInv'
  OBVIOUS
<1>1. TypeOK'
  BY DEF Restart, OInv, TypeOK
<1>2. FreshUntilDone' /\ CallsOfMembers'
  BY NoneIsNoRow DEF Restart, OInv, FreshUntilDone, CallsOfMembers
<1>3. AdminByBootstrap' /\ OneAdmissionPerToken' /\ InvitedByAuthority' /\ HumanStays'
  BY DEF Restart, OInv, AdminByBootstrap, OneAdmissionPerToken, InvitedByAuthority, HumanStays, Active
<1> QED BY <1>1, <1>2, <1>3 DEF OInv

LEMMA TickStep == OInv /\ (Tick \/ UNCHANGED vars) => OInv'
<1> SUFFICES ASSUME OInv, Tick \/ UNCHANGED vars PROVE OInv'
  OBVIOUS
<1>1. now' \in 0..MaxTime /\ UNCHANGED <<bootstrap, invites, principals, requests, calls, lockout>>
  BY OnboardingAssumption DEF Tick, vars, OInv, TypeOK
<1> QED BY <1>1 DEF OInv, TypeOK, FreshUntilDone, CallsOfMembers, AdminByBootstrap,
     OneAdmissionPerToken, InvitedByAuthority, HumanStays, Active

LEMMA StepOK == OInv /\ [Next]_vars => OInv'
<1> SUFFICES ASSUME OInv, [Next]_vars PROVE OInv'
  OBVIOUS
<1>1. ASSUME NEW r \in Requests, NEW token \in Tokens,
             ClaimForAgent(r, token) \/ PasskeyOptions(r, token) \/ PasskeyVerify(r, token)
      PROVE  OInv'
  BY <1>1, RequestSteps
<1>2. ASSUME NEW r \in Requests, Reap(r) PROVE OInv'
  BY <1>2, RequestSteps DEF Tokens
<1>3. ASSUME NEW r \in Requests, BeginRegister(r) \/ Register(r) PROVE OInv'
  BY <1>3, BeginStep, RegisterStep
<1>4. ASSUME NEW c \in Callers, NEW p \in Requests, Authenticate(c, p) PROVE OInv'
  BY <1>4, CallStep DEF Authenticate, Active
<1>5. ASSUME NEW c \in Callers, EndCall(c) PROVE OInv'
  BY <1>5, CallStep DEF EndCall, Return
<1> QED BY <1>1, <1>2, <1>3, <1>4, <1>5, RevokePrincipalStep, RevokeInviteStep, CreateInviteStep,
           RestartStep, TickStep DEF Next

-----------------------------------------------------------------------------
(* The invariant holds in every reachable state. *)
THEOREM OnboardingInvariant == Spec => []OInv
  BY InitOK, StepOK, PTL DEF Spec

(* Tokens, invites, principals, registrations and calls keep their types,  *)
(* so no row ever names a principal or a token that is none.               *)
THEOREM TypesHold == Spec => []TypeOK
  BY OnboardingInvariant, PTL DEF OInv

(* However many registrations have checked a token, it admits at most one  *)
(* principal, and its row names that principal.                            *)
THEOREM TokensAdmitOnce == Spec => []OneAdmissionPerToken
  BY OnboardingInvariant, PTL DEF OInv

(* Every invite was created by a human or by the bootstrap principal.      *)
THEOREM OnlyAuthoritiesInvite == Spec => []InvitedByAuthority
  BY OnboardingInvariant, PTL DEF OInv

(* Revocations that cross leave an active human unless one allowed the     *)
(* lockout.                                                                *)
THEOREM NoAccidentalLockout == Spec => []HumanStays
  BY OnboardingInvariant, PTL DEF OInv

-----------------------------------------------------------------------------
(* Onboarding implements Admission. *)

ticketMap == [t \in Tokens |-> TicketState(t)]
memberMap == [p \in Requests |-> MemberState(p)]
doorMap == [r \in Requests |-> Door(r)]

(* A registration in flight holds a token that was issued. *)
ClaimsExist ==
  \A r \in Requests : requests[r] \in Request /\ requests[r].token \in Invites =>
    invites[requests[r].token] # NoInvite

(* An invite that was issued stays so, with its expiry. *)
InvitesStay ==
  \A i \in Invites : invites[i] # NoInvite =>
    invites'[i] # NoInvite /\ invites'[i].expires = invites[i].expires

LEMMA InvitesKept == OInv /\ [Next]_vars => InvitesStay
<1> SUFFICES ASSUME OInv, [Next]_vars PROVE InvitesStay
  OBVIOUS
<1> USE NoneIsNoRow
<1>0. ASSUME UNCHANGED invites PROVE InvitesStay
  BY <1>0 DEF InvitesStay
<1>1. ASSUME NEW i \in Invites, invites[i] \in Invite, NEW row \in Invite,
             row.expires = invites[i].expires, invites' = [invites EXCEPT ![i] = row]
      PROVE  InvitesStay
  BY <1>1 DEF InvitesStay, OInv, TypeOK
<1>2. ASSUME NEW r \in Requests, Register(r) PROVE InvitesStay
  <2>1. CASE UNCHANGED invites
    BY <1>0, <2>1
  <2>2. CASE SpendInvite(r)
    <3>1. PICK i \in Invites : i = requests[r].token
      BY <2>2 DEF SpendInvite
    <3>2. invites[i] \in Invite /\ invites' = [invites EXCEPT ![i] = [invites[i] EXCEPT !.consumer = r]]
      BY <2>2, <3>1 DEF SpendInvite, Open, OInv, TypeOK
    <3>3. PICK row : row = [invites[i] EXCEPT !.consumer = r]
      OBVIOUS
    <3>4. row \in Invite /\ row.expires = invites[i].expires
      BY <3>2, <3>3 DEF Invite
    <3> QED BY <1>1, <3>2, <3>3, <3>4
  <2> QED BY <1>2, <2>1, <2>2 DEF Register, SpendBootstrap
<1>3. ASSUME NEW c \in Callers, NEW i \in Invites, RevokeInvite(c, i) PROVE InvitesStay
  <2>1. invites[i] \in Invite /\ invites' = [invites EXCEPT ![i] = [invites[i] EXCEPT !.revoked = TRUE]]
    BY <1>3 DEF RevokeInvite, OInv, TypeOK
  <2>2. PICK row : row = [invites[i] EXCEPT !.revoked = TRUE]
    OBVIOUS
  <2>3. row \in Invite /\ row.expires = invites[i].expires
    BY <2>1, <2>2 DEF Invite
  <2> QED BY <1>1, <2>1, <2>2, <2>3
<1>4. ASSUME NEW c \in Callers, NEW i \in Invites, NEW kind \in InviteKinds,
             NEW life \in Lifetimes, CreateInvite(c, i, kind, life)
      PROVE  InvitesStay
  <2>1. invites[i] = NoInvite /\ \A j \in Invites \ {i} : invites'[j] = invites[j]
    BY <1>4 DEF CreateInvite, OInv, TypeOK
  <2> QED BY <2>1 DEF InvitesStay
<1>5. CASE UNCHANGED vars
  BY <1>0, <1>5 DEF vars
<1>6. CASE Tick \/ Restart
  BY <1>0, <1>6 DEF Tick, Restart
<1>7. ASSUME NEW r \in Requests, NEW token \in Tokens,
             \/ ClaimForAgent(r, token) \/ PasskeyOptions(r, token) \/ PasskeyVerify(r, token)
             \/ Reap(r) \/ BeginRegister(r)
      PROVE  InvitesStay
  BY <1>0, <1>7 DEF ClaimForAgent, PasskeyOptions, PasskeyVerify, Reap, BeginRegister
<1>8. ASSUME NEW r \in Requests, Reap(r) \/ BeginRegister(r) PROVE InvitesStay
  BY <1>0, <1>8 DEF Reap, BeginRegister
<1>9. ASSUME NEW c \in Callers, NEW p \in Requests, NEW allow \in BOOLEAN,
             Authenticate(c, p) \/ RevokePrincipal(c, p, allow) \/ EndCall(c)
      PROVE  InvitesStay
  BY <1>0, <1>9 DEF Authenticate, RevokePrincipal, EndCall
<1>10. ASSUME NEW c \in Callers, EndCall(c) PROVE InvitesStay
  BY <1>0, <1>10 DEF EndCall
<1>11. ASSUME NEW c \in Callers, NEW p \in Requests, Authenticate(c, p) PROVE InvitesStay
  BY <1>0, <1>11 DEF Authenticate
<1> QED BY <1>2, <1>3, <1>4, <1>5, <1>6, <1>7, <1>8, <1>9, <1>10, <1>11 DEF Next

(* What a step does to a registration: nothing, it ends, it holds a token   *)
(* it held before, or one that just resolved.                              *)
RequestMoves(r) ==
  \/ requests'[r] = requests[r]
  \/ requests'[r] = Over
  \/ requests[r] \in Request /\ requests'[r].token = requests[r].token
  \/ requests'[r].token \in Invites => invites[requests'[r].token] # NoInvite

LEMMA RequestsMove == OInv /\ [Next]_vars => \A r \in Requests : RequestMoves(r)
<1> SUFFICES ASSUME OInv, [Next]_vars PROVE \A r \in Requests : RequestMoves(r)
  OBVIOUS
<1>0. requests \in [Requests -> Request \cup {Idle, Over}]
  BY DEF OInv, TypeOK
<1>1. ASSUME UNCHANGED requests PROVE \A r \in Requests : RequestMoves(r)
  BY <1>1 DEF RequestMoves
<1>2. ASSUME NEW r \in Requests, NEW token \in Tokens, ClaimForAgent(r, token) \/ PasskeyOptions(r, token)
      PROVE  \A q \in Requests : RequestMoves(q)
  <2>1. requests'[r].token = token /\ \A q \in Requests \ {r} : requests'[q] = requests[q]
    BY <1>0, <1>2 DEF ClaimForAgent, PasskeyOptions
  <2>2. token \in Invites => invites[token] # NoInvite
    BY <1>2, OnboardingAssumption DEF ClaimForAgent, PasskeyOptions, Resolves, Open
  <2> QED BY <2>1, <2>2 DEF RequestMoves
<1>3. ASSUME NEW r \in Requests, End(r) PROVE \A q \in Requests : RequestMoves(q)
  BY <1>0, <1>3 DEF End, RequestMoves
<1>4. ASSUME NEW r \in Requests, NEW token \in Tokens, PasskeyVerify(r, token)
      PROVE  \A q \in Requests : RequestMoves(q)
  <2>1. CASE End(r)
    BY <1>3, <2>1
  <2>2. CASE requests' = [requests EXCEPT ![r].step = "claimed", ![r].expires = Never]
    <3>1. requests[r] \in Request
      BY <1>0, <1>4 DEF PasskeyVerify, Idle, Over
    <3>2. requests'[r].token = requests[r].token
      BY <1>0, <2>2, <3>1 DEF Request
    <3>3. \A q \in Requests \ {r} : requests'[q] = requests[q]
      BY <1>0, <2>2
    <3> QED BY <3>1, <3>2, <3>3 DEF RequestMoves
  <2> QED BY <1>4, <2>1, <2>2 DEF PasskeyVerify
<1>5. ASSUME NEW r \in Requests, BeginRegister(r)
      PROVE  \A q \in Requests : RequestMoves(q)
  <2>1. requests[r] \in Request
    BY <1>0, <1>5 DEF BeginRegister, Idle, Over
  <2>2. requests'[r].token = requests[r].token
    BY <1>0, <1>5, <2>1 DEF BeginRegister, Request
  <2>3. \A q \in Requests \ {r} : requests'[q] = requests[q]
    BY <1>0, <1>5 DEF BeginRegister
  <2> QED BY <2>1, <2>2, <2>3 DEF RequestMoves
<1>6. ASSUME NEW r \in Requests, Reap(r) \/ Register(r) PROVE \A q \in Requests : RequestMoves(q)
  BY <1>3, <1>6 DEF Reap, Register
<1>7. CASE Restart
  BY <1>7 DEF Restart, RequestMoves
<1>8. CASE Tick \/ UNCHANGED vars
  BY <1>1, <1>8 DEF Tick, vars
<1>9. ASSUME NEW c \in Callers, EndCall(c) PROVE UNCHANGED requests
  BY <1>9 DEF EndCall
<1>10. ASSUME NEW c \in Callers, NEW p \in Requests, Authenticate(c, p) PROVE UNCHANGED requests
  BY <1>10 DEF Authenticate
<1>11. ASSUME NEW c \in Callers, NEW p \in Requests, NEW allow \in BOOLEAN, RevokePrincipal(c, p, allow)
       PROVE  UNCHANGED requests
  BY <1>11 DEF RevokePrincipal
<1>12. ASSUME NEW c \in Callers, NEW i \in Invites, RevokeInvite(c, i) PROVE UNCHANGED requests
  BY <1>12 DEF RevokeInvite
<1>13. ASSUME NEW c \in Callers, NEW i \in Invites, NEW kind \in InviteKinds, NEW life \in Lifetimes,
              CreateInvite(c, i, kind, life)
       PROVE  UNCHANGED requests
  BY <1>13 DEF CreateInvite
<1> QED BY <1>1, <1>2, <1>4, <1>5, <1>6, <1>7, <1>8, <1>9, <1>10, <1>11, <1>12, <1>13 DEF Next

LEMMA ClaimsStep == OInv /\ ClaimsExist /\ [Next]_vars => ClaimsExist'
<1> SUFFICES ASSUME OInv, ClaimsExist, [Next]_vars, NEW r \in Requests,
                    requests'[r] \in Request, requests'[r].token \in Invites
             PROVE  invites'[requests'[r].token] # NoInvite
  BY DEF ClaimsExist
<1>1. RequestMoves(r) /\ InvitesStay
  BY RequestsMove, InvitesKept
<1>2. invites[requests'[r].token] # NoInvite
  BY <1>1, NoneIsNoRow DEF RequestMoves, ClaimsExist
<1> QED BY <1>1, <1>2 DEF InvitesStay

(* Every registration in flight holds an issued token.                      *)
THEOREM ClaimsAreIssued == Spec => []ClaimsExist
<1>1. Init => ClaimsExist
  BY NoneIsNoRow DEF Init, ClaimsExist
<1> QED BY <1>1, ClaimsStep, OnboardingInvariant, PTL DEF Spec

(* Stated for any row and time, to be used before and after a step. *)
LEMMA InviteStates ==
  ASSUME NEW invite, NEW at
  PROVE  /\ invite = NoInvite => InviteState(invite, at) = "unissued"
         /\ invite # NoInvite /\ invite.consumer # NoOne => InviteState(invite, at) = "spent"
         /\ invite # NoInvite /\ invite.consumer = NoOne /\ invite.revoked
              => InviteState(invite, at) = "void"
         /\ invite # NoInvite /\ invite.consumer = NoOne /\ ~invite.revoked /\ invite.expires < at
              => InviteState(invite, at) = "expired"
         /\ invite # NoInvite /\ invite.consumer = NoOne /\ ~invite.revoked /\ ~(invite.expires < at)
              => InviteState(invite, at) = "open"
  BY DEF InviteState

LEMMA TicketFrame ==
  UNCHANGED <<now, bootstrap, invites>> => \A t \in Tokens : TicketState(t)' = TicketState(t)
  BY DEF TicketState

LEMMA MemberFrame ==
  UNCHANGED principals => \A p \in Requests : MemberState(p)' = MemberState(p)
  BY DEF MemberState

(* Who waits at the door goes on waiting while its registration does. *)
LEMMA DoorFrame ==
  ASSUME OInv, ClaimsExist, InvitesStay, UNCHANGED requests
  PROVE  \A r \in Requests : Door(r)' = Door(r)
<1> SUFFICES ASSUME NEW r \in Requests PROVE InTime(r)' <=> InTime(r)
  BY DEF Door
<1>1. CASE requests[r].step # "begun"
  BY <1>1 DEF InTime
<1>2. CASE requests[r].step = "begun"
  <2>1. requests[r] \in Request
    BY <1>2 DEF OInv, TypeOK, Idle, Over
  <2> QED BY <2>1 DEF InTime, ClaimsExist, InvitesStay
<1> QED BY <1>1, <1>2

LEMMA NothingSeen ==
  ASSUME \A t \in Tokens : TicketState(t)' = TicketState(t),
         \A p \in Requests : MemberState(p)' = MemberState(p),
         \A r \in Requests : Door(r)' = Door(r)
  PROVE  UNCHANGED A!admissionVars
  BY DEF A!admissionVars

(* Registrations end that waited, or will not be let in any more. *)
LEMMA GoAwaySeen ==
  ASSUME \A t \in Tokens : TicketState(t)' = TicketState(t),
         \A p \in Requests : MemberState(p)' = MemberState(p),
         \A r \in Requests : Door(r)' \in {Door(r), NoOne}
  PROVE  A!AdmissionNext
<1> DEFINE M == {r \in Requests : Door(r) # Door(r)'}
<1>1. doorMap' = [r \in Requests |-> IF r \in M THEN NoOne ELSE doorMap[r]]
  BY DEF doorMap
<1>2. UNCHANGED <<ticketMap, memberMap>>
  BY DEF ticketMap, memberMap
<1>3. A!GoAway(M)
  BY <1>1, <1>2 DEF A!GoAway, ticketMap, memberMap, doorMap
<1>4. M \in SUBSET Requests
  OBVIOUS
<1> QED BY <1>3, <1>4 DEF A!AdmissionNext

LEMMA AdmissionInitOK == Init => A!AdmissionInit
<1> SUFFICES ASSUME Init PROVE A!AdmissionInit
  OBVIOUS
<1>1. \A t \in Tokens : TicketState(t) = IF t = Bootstrap THEN "open" ELSE "unissued"
  BY InviteStates, OnboardingAssumption DEF Init, TicketState, Tokens
<1>2. \A r \in Requests : MemberState(r) = "out" /\ Door(r) = NoOne
  BY DEF Init, MemberState, Door, InTime, Idle
<1> QED BY <1>1, <1>2 DEF A!AdmissionInit

(* One ticket and one member move. *)
LEMMA AdmitSeen ==
  ASSUME NEW t \in Tokens, NEW r \in Requests,
         TicketState(t) \in {"open", "expired"}, TicketState(t)' = "spent",
         MemberState(r) = "out", MemberState(r)' = "in",
         Door(r) = t, Door(r)' = NoOne,
         \A u \in Tokens \ {t} : TicketState(u)' = TicketState(u),
         \A q \in Requests \ {r} : MemberState(q)' = MemberState(q) /\ Door(q)' = Door(q)
  PROVE  A!Admit(t, r)
<1>1. ticketMap' = [ticketMap EXCEPT ![t] = "spent"]
  BY DEF ticketMap
<1>2. memberMap' = [memberMap EXCEPT ![r] = "in"]
  BY DEF memberMap
<1>3. doorMap' = [doorMap EXCEPT ![r] = NoOne]
  BY DEF doorMap
<1> QED BY <1>1, <1>2, <1>3 DEF A!Admit, ticketMap, memberMap, doorMap

(* The doors of a step that ends one registration. *)
LEMMA EndSeen ==
  ASSUME OInv, ClaimsExist, InvitesStay, NEW r \in Requests, End(r)
  PROVE  Door(r)' = NoOne /\ \A q \in Requests \ {r} : Door(q)' = Door(q)
<1>1. requests'[r] = Over /\ \A q \in Requests \ {r} : requests'[q] = requests[q]
  BY DEF End, OInv, TypeOK
<1>2. Door(r)' = NoOne
  BY <1>1 DEF Door, InTime, Over
<1>3. ASSUME NEW q \in Requests \ {r} PROVE InTime(q)' <=> InTime(q)
  <2>1. CASE requests[q].step # "begun"
    BY <1>1, <2>1 DEF InTime
  <2>2. CASE requests[q].step = "begun"
    <3>1. requests[q] \in Request
      BY <2>2 DEF OInv, TypeOK, Idle, Over
    <3> QED BY <1>1, <3>1 DEF InTime, ClaimsExist, InvitesStay
  <2> QED BY <2>1, <2>2
<1> QED BY <1>1, <1>2, <1>3 DEF Door

(* A registration that begins in time comes to the door. *)
LEMMA BeginSeen ==
  ASSUME OInv, ClaimsExist, NEW r \in Requests, BeginRegister(r)
  PROVE  A!AdmissionNext
<1> USE NoneIsNoRow
<1>1. requests[r] \in Request /\ requests[r] # Over
  BY DEF BeginRegister, OInv, TypeOK, Idle, Over
<1>2. PICK value : value = [requests[r] EXCEPT !.step = "begun", !.began = now]
  OBVIOUS
<1>3. /\ requests'[r] = value /\ \A q \in Requests \ {r} : requests'[q] = requests[q]
      /\ UNCHANGED <<now, bootstrap, invites, principals>>
  BY <1>2 DEF BeginRegister, OInv, TypeOK
<1>4. value.step = "begun" /\ value.token = requests[r].token /\ value.began = now
  BY <1>1, <1>2 DEF Request
<1>5. /\ \A t \in Tokens : TicketState(t)' = TicketState(t)
      /\ \A p \in Requests : MemberState(p)' = MemberState(p)
  BY <1>3, TicketFrame, MemberFrame
<1>6. \A q \in Requests \ {r} : Door(q)' = Door(q)
  BY <1>3 DEF Door, InTime
<1>7. PICK t \in Tokens : t = requests[r].token
  BY <1>1 DEF Request
<1>8. CASE ~InTime(r)'
  <2>1. Door(r)' = NoOne
    BY <1>8 DEF Door
  <2> QED BY <1>5, <1>6, <2>1, GoAwaySeen
<1>9. CASE InTime(r)'
  <2>1. Door(r)' = t
    BY <1>3, <1>4, <1>7, <1>9 DEF Door
  <2>2. TicketState(t) \notin {"unissued", "expired"}
    <3>1. CASE t = Bootstrap
      BY <3>1 DEF TicketState
    <3>2. CASE t # Bootstrap
      <4>1. t \in Invites
        BY <3>2 DEF Tokens
      <4>2. invites[t] # NoInvite
        BY <1>1, <1>7, <4>1 DEF ClaimsExist
      <4>3. invites[t].expires >= now
        BY <1>3, <1>4, <1>7, <1>9, <4>1 DEF InTime
      <4>4. ~(invites[t].expires < now)
        BY <4>1, <4>2, <4>3, OnboardingAssumption DEF OInv, TypeOK, Invite, Never
      <4>5. InviteState(invites[t], now) \notin {"unissued", "expired"}
        BY <4>2, <4>4, InviteStates
      <4> QED BY <3>2, <4>5 DEF TicketState
    <3> QED BY <3>1, <3>2
  <2>3. MemberState(r) = "out"
    BY <1>1 DEF OInv, FreshUntilDone, MemberState
  <2>4. doorMap' = [doorMap EXCEPT ![r] = t]
    BY <1>6, <2>1 DEF doorMap
  <2>5. UNCHANGED <<ticketMap, memberMap>>
    BY <1>5 DEF ticketMap, memberMap
  <2>6. A!Knock(t, r)
    BY <2>2, <2>3, <2>4, <2>5 DEF A!Knock, ticketMap, memberMap, doorMap
  <2> QED BY <2>6 DEF A!AdmissionNext
<1> QED BY <1>8, <1>9

LEMMA RegisterSeen ==
  ASSUME OInv, ClaimsExist, InvitesStay, NEW r \in Requests, Register(r)
  PROVE  A!AdmissionNext
<1> USE NoneIsNoRow
<1>1. requests[r] \in Request /\ requests[r] # Over
  BY DEF Register, OInv, TypeOK, Idle, Over
<1>2. principals[r] = NoPrincipal
  BY <1>1 DEF OInv, FreshUntilDone
<1>3. requests[r].token \in Tokens /\ requests[r].step = "begun"
  BY <1>1 DEF Request, Register
<1>8. Door(r)' = NoOne /\ \A q \in Requests \ {r} : Door(q)' = Door(q)
  BY EndSeen DEF Register
<1>4. ASSUME Enroll(r)
      PROVE  /\ MemberState(r) = "out" /\ MemberState(r)' = "in"
             /\ \A q \in Requests \ {r} : MemberState(q)' = MemberState(q)
  <2> DEFINE row == [kind |-> requests[r].kind, admin |-> requests[r].token = Bootstrap,
                     token |-> requests[r].token, revoked |-> FALSE]
  <2>1. row \in Principal
    BY <1>1 DEF Request, Principal
  <2>2. /\ principals'[r] = row /\ row # NoPrincipal /\ ~row.revoked
        /\ \A q \in Requests \ {r} : principals'[q] = principals[q]
    BY <1>4, <2>1 DEF Enroll, OInv, TypeOK
  <2> QED BY <1>2, <2>2 DEF MemberState
<1>5. CASE SpendBootstrap(r)
  <2>1. /\ TicketState(Bootstrap) = "open" /\ TicketState(Bootstrap)' = "spent"
        /\ \A u \in Tokens \ {Bootstrap} : TicketState(u)' = TicketState(u)
    BY <1>5, OnboardingAssumption DEF SpendBootstrap, Register, TicketState
  <2>2. Door(r) = Bootstrap
    BY <1>3, <1>5, OnboardingAssumption DEF SpendBootstrap, Door, InTime
  <2>3. A!Admit(Bootstrap, r)
    BY <1>4, <1>5, <1>8, <2>1, <2>2, AdmitSeen DEF SpendBootstrap, Tokens
  <2> QED BY <2>3 DEF A!AdmissionNext, Tokens
<1>6. CASE SpendInvite(r)
  <2>0. PICK i \in Invites : i = requests[r].token
    BY <1>6 DEF SpendInvite
  <2>1. /\ i # Bootstrap /\ invites[i] \in Invite
        /\ invites[i].consumer = NoOne /\ ~invites[i].revoked
        /\ invites[i].expires >= requests[r].began
        /\ invites' = [invites EXCEPT ![i] = [invites[i] EXCEPT !.consumer = r]]
        /\ UNCHANGED <<bootstrap, now>>
    BY <1>6, <2>0, OnboardingAssumption DEF SpendInvite, Open, Register, OInv, TypeOK
  <2>2. /\ invites'[i] \in Invite /\ invites'[i].consumer = r
        /\ \A j \in Invites \ {i} : invites'[j] = invites[j]
    BY <2>1 DEF OInv, TypeOK, Invite
  <2>3. TicketState(i) \in {"open", "expired"}
    <3>1. InviteState(invites[i], now) \in {"open", "expired"}
      BY <2>1, InviteStates
    <3> QED BY <2>1, <3>1 DEF TicketState
  <2>4. TicketState(i)' = "spent"
    <3>1. invites'[i] # NoInvite /\ invites'[i].consumer # NoOne
      BY <2>2, OnboardingAssumption
    <3>2. InviteState(invites'[i], now') = "spent"
      BY <3>1, InviteStates
    <3> QED BY <2>1, <3>2 DEF TicketState
  <2>5. \A u \in Tokens \ {i} : TicketState(u)' = TicketState(u)
    BY <2>1, <2>2 DEF TicketState, Tokens
  <2>6. Door(r) = i
    BY <1>3, <2>0, <2>1 DEF Door, InTime
  <2>7. A!Admit(i, r)
    BY <1>4, <1>6, <1>8, <2>3, <2>4, <2>5, <2>6, AdmitSeen DEF SpendInvite, Tokens
  <2> QED BY <2>7 DEF A!AdmissionNext, Tokens
<1>7. CASE UNCHANGED <<bootstrap, invites, principals>>
  <2>1. /\ \A t \in Tokens : TicketState(t)' = TicketState(t)
        /\ \A p \in Requests : MemberState(p)' = MemberState(p)
    BY <1>7, TicketFrame, MemberFrame DEF Register
  <2> QED BY <1>8, <2>1, GoAwaySeen
<1> QED BY <1>5, <1>6, <1>7 DEF Register

LEMMA CreateInviteSeen ==
  ASSUME OInv, ClaimsExist, InvitesStay, NEW c \in Callers, NEW i \in Invites, NEW kind \in InviteKinds, NEW life \in Lifetimes,
         CreateInvite(c, i, kind, life)
  PROVE  A!AdmissionNext
<1> USE NoneIsNoRow
<1> DEFINE row == [kind |-> kind, expires |-> Smaller(now + life, Never), by |-> calls[c],
                   consumer |-> NoOne, revoked |-> FALSE]
<1>1. /\ calls[c] \in Requests /\ principals[calls[c]] # NoPrincipal
      /\ invites[i] = NoInvite /\ invites' = [invites EXCEPT ![i] = row]
      /\ UNCHANGED <<now, bootstrap, principals, requests>>
  BY DEF CreateInvite, OInv, TypeOK, CallsOfMembers
<1>2. now <= Smaller(now + life, Never) /\ Smaller(now + life, Never) \in 0..Never
  BY SmallerIsCapped, OnboardingAssumption DEF OInv, TypeOK
<1>3. row \in Invite
  BY <1>1, <1>2 DEF Invite
<1>4. /\ invites'[i] = row /\ invites'[i] # NoInvite
      /\ \A j \in Invites \ {i} : invites'[j] = invites[j]
  BY <1>1, <1>3 DEF OInv, TypeOK
<1>5. TicketState(i) = "unissued" /\ i # Bootstrap
  BY <1>1, InviteStates, OnboardingAssumption DEF TicketState
<1>6. TicketState(i)' = "open"
  <2>1. invites'[i].consumer = NoOne /\ ~invites'[i].revoked /\ invites'[i].expires = Smaller(now + life, Never)
    BY <1>4
  <2>2. ~(invites'[i].expires < now')
    BY <1>1, <1>2, <2>1, OnboardingAssumption DEF Never, OInv, TypeOK
  <2> QED BY <1>4, <1>5, <2>1, <2>2, InviteStates DEF TicketState
<1>7. \A u \in Tokens \ {i} : TicketState(u)' = TicketState(u)
  BY <1>1, <1>4 DEF TicketState, Tokens
<1>8. ticketMap' = [ticketMap EXCEPT ![i] = "open"]
  BY <1>6, <1>7 DEF ticketMap
<1>9. UNCHANGED <<memberMap, doorMap>>
  BY <1>1, DoorFrame DEF memberMap, MemberState, doorMap
<1>10. \E m \in Requests : memberMap[m] # "out"
  BY <1>1 DEF memberMap, MemberState
<1>11. A!Issue(i)
  BY <1>5, <1>8, <1>9, <1>10 DEF A!Issue, ticketMap, memberMap, doorMap, Tokens
<1> QED BY <1>11 DEF A!AdmissionNext, Tokens

LEMMA RevokeInviteSeen ==
  ASSUME OInv, ClaimsExist, InvitesStay, NEW c \in Callers, NEW i \in Invites, RevokeInvite(c, i)
  PROVE  A!AdmissionNext \/ UNCHANGED A!admissionVars
<1> USE NoneIsNoRow
<1>1. /\ invites[i] \in Invite /\ ~invites[i].revoked
      /\ invites' = [invites EXCEPT ![i] = [invites[i] EXCEPT !.revoked = TRUE]]
      /\ UNCHANGED <<now, bootstrap, principals, requests>>
  BY DEF RevokeInvite, OInv, TypeOK
<1>2. /\ invites'[i] \in Invite /\ invites'[i].revoked
      /\ invites'[i].consumer = invites[i].consumer
      /\ \A j \in Invites \ {i} : invites'[j] = invites[j]
  BY <1>1 DEF OInv, TypeOK, Invite
<1>3. \A u \in Tokens \ {i} : TicketState(u)' = TicketState(u)
  BY <1>1, <1>2 DEF TicketState, Tokens
<1>4. /\ \A p \in Requests : MemberState(p)' = MemberState(p)
      /\ \A r \in Requests : Door(r)' = Door(r)
  BY <1>1, MemberFrame, DoorFrame
<1>5. TicketState(i) = InviteState(invites[i], now) /\ TicketState(i)' = InviteState(invites'[i], now)
  BY <1>1, OnboardingAssumption DEF TicketState
<1>6. invites[i] # NoInvite /\ invites'[i] # NoInvite
  BY <1>1, <1>2
<1>7. CASE invites[i].consumer # NoOne
  <2>1. TicketState(i)' = TicketState(i)
    BY <1>2, <1>5, <1>6, <1>7, InviteStates
  <2> QED BY <1>3, <1>4, <2>1, NothingSeen
<1>8. CASE invites[i].consumer = NoOne
  <2>1. TicketState(i)' = "void"
    BY <1>2, <1>5, <1>6, <1>8, InviteStates
  <2>2. TicketState(i) \in {"open", "expired"}
    BY <1>1, <1>5, <1>6, <1>8, InviteStates
  <2>3. ticketMap' = [ticketMap EXCEPT ![i] = "void"]
    BY <1>3, <2>1 DEF ticketMap
  <2>4. UNCHANGED <<memberMap, doorMap>>
    BY <1>4 DEF memberMap, doorMap
  <2>5. A!Void(i)
    BY <2>2, <2>3, <2>4 DEF A!Void, ticketMap, memberMap, doorMap, Tokens
  <2> QED BY <2>5 DEF A!AdmissionNext, Tokens
<1> QED BY <1>7, <1>8

(* Time closes tickets that were open, and no other. *)
LEMMA TickSeen == OInv /\ ClaimsExist /\ InvitesStay /\ Tick => A!AdmissionNext
<1> SUFFICES ASSUME OInv, ClaimsExist, InvitesStay, Tick PROVE A!AdmissionNext
  OBVIOUS
<1>1. now \in Nat /\ now' = now + 1 /\ UNCHANGED <<bootstrap, invites, principals, requests>>
  BY OnboardingAssumption DEF Tick, OInv, TypeOK
<1>2. ASSUME NEW t \in Tokens
      PROVE  TicketState(t)' = TicketState(t) \/ (TicketState(t) = "open" /\ TicketState(t)' = "expired")
  <2>1. CASE t = Bootstrap
    BY <1>1, <2>1 DEF TicketState
  <2>2. CASE t # Bootstrap
    <3>1. t \in Invites
      BY <2>2 DEF Tokens
    <3>2. invites[t] # NoInvite => invites[t].expires \in Nat
      BY <3>1, OnboardingAssumption DEF OInv, TypeOK, Invite, Never
    <3>3. TicketState(t) = InviteState(invites[t], now) /\ TicketState(t)' = InviteState(invites[t], now + 1)
      BY <1>1, <2>2 DEF TicketState
    <3>4. invites[t] # NoInvite /\ invites[t].expires < now => invites[t].expires < now + 1
      BY <1>1, <3>2
    <3> QED BY <3>3, <3>4, InviteStates
  <2> QED BY <2>1, <2>2
<1> DEFINE T == {t \in Tokens : TicketState(t) # TicketState(t)'}
<1>3. \A t \in T : ticketMap[t] = "open"
  BY <1>2 DEF ticketMap
<1>4. ticketMap' = [t \in Tokens |-> IF t \in T THEN "expired" ELSE ticketMap[t]]
  BY <1>2 DEF ticketMap
<1>5. UNCHANGED <<memberMap, doorMap>>
  BY <1>1, MemberFrame, DoorFrame DEF memberMap, doorMap
<1>6. A!Expire(T)
  BY <1>3, <1>4, <1>5 DEF A!Expire, ticketMap, memberMap, doorMap
<1>7. T \in SUBSET Tokens
  OBVIOUS
<1> QED BY <1>6, <1>7 DEF A!AdmissionNext

LEMMA RevokePrincipalSeen ==
  ASSUME OInv, ClaimsExist, InvitesStay, NEW c \in Callers, NEW p \in Requests,
         NEW allow \in BOOLEAN, RevokePrincipal(c, p, allow)
  PROVE  A!AdmissionNext
<1>1. /\ Active(p) /\ principals' = [principals EXCEPT ![p].revoked = TRUE]
      /\ UNCHANGED <<now, bootstrap, invites, requests>>
  BY DEF RevokePrincipal
<1>2. /\ principals'[p] # NoPrincipal /\ principals'[p].revoked
      /\ \A q \in Requests \ {p} : principals'[q] = principals[q]
  BY <1>1, RevokedRow DEF Active
<1>3. memberMap[p] = "in" /\ memberMap' = [memberMap EXCEPT ![p] = "left"]
  BY <1>1, <1>2 DEF memberMap, MemberState, Active
<1>4. UNCHANGED <<ticketMap, doorMap>>
  BY <1>1, TicketFrame, DoorFrame DEF ticketMap, doorMap
<1> QED BY <1>3, <1>4 DEF A!AdmissionNext, A!Leave, ticketMap, memberMap, doorMap

(* Steps of a registration outside begin and transaction are not seen. *)
LEMMA OtherStepsUnseen ==
  ASSUME OInv, ClaimsExist, NEW r \in Requests, NEW token \in Tokens,
         ClaimForAgent(r, token) \/ PasskeyOptions(r, token) \/ PasskeyVerify(r, token) \/ Reap(r)
  PROVE  UNCHANGED A!admissionVars
<1>1. UNCHANGED <<now, bootstrap, invites, principals>>
  BY DEF ClaimForAgent, PasskeyOptions, PasskeyVerify, Reap
<1>2. \A q \in Requests \ {r} : requests'[q] = requests[q]
  BY DEF ClaimForAgent, PasskeyOptions, PasskeyVerify, Reap, End, OInv, TypeOK
<1>3. requests[r].step \in {"new", "session"}
  BY DEF ClaimForAgent, PasskeyOptions, PasskeyVerify, Reap, Idle
<1>4. requests'[r].step # "begun"
  <2>1. CASE ClaimForAgent(r, token) \/ PasskeyOptions(r, token)
    BY <2>1 DEF ClaimForAgent, PasskeyOptions, OInv, TypeOK
  <2>2. CASE End(r)
    BY <2>2 DEF End, Over, OInv, TypeOK
  <2>3. CASE PasskeyVerify(r, token) /\ ~End(r)
    <3>1. requests[r] \in Request
      BY <2>3 DEF PasskeyVerify, OInv, TypeOK, Idle, Over
    <3> QED BY <2>3, <3>1 DEF PasskeyVerify, Request, OInv, TypeOK
  <2> QED BY <2>1, <2>2, <2>3 DEF Reap
<1>5. \A q \in Requests : Door(q)' = Door(q)
  BY <1>1, <1>2, <1>3, <1>4 DEF Door, InTime
<1> QED BY <1>1, <1>5, TicketFrame, MemberFrame, NothingSeen

LEMMA RestartSeen ==
  ASSUME OInv, Restart
  PROVE  A!AdmissionNext
<1>1. UNCHANGED <<now, bootstrap, invites, principals>>
  BY DEF Restart
<1>2. \A r \in Requests : Door(r)' = NoOne
  BY DEF Restart, Door, InTime, Idle, Over
<1> QED BY <1>1, <1>2, TicketFrame, MemberFrame, GoAwaySeen

LEMMA AdmissionStepOK ==
  OInv /\ ClaimsExist /\ [Next]_vars => [A!AdmissionNext]_(A!admissionVars)
<1> SUFFICES ASSUME OInv, ClaimsExist, [Next]_vars
             PROVE  A!AdmissionNext \/ UNCHANGED A!admissionVars
  OBVIOUS
<1>0. InvitesStay
  BY InvitesKept
<1>1. ASSUME UNCHANGED <<now, bootstrap, invites, principals, requests>>
      PROVE  UNCHANGED A!admissionVars
  BY <1>0, <1>1, TicketFrame, MemberFrame, DoorFrame, NothingSeen
<1>2. ASSUME NEW r \in Requests, Reap(r) PROVE UNCHANGED A!admissionVars
  BY <1>2, OtherStepsUnseen DEF Tokens
<1>3. ASSUME NEW c \in Callers, NEW p \in Requests, Authenticate(c, p)
      PROVE  UNCHANGED A!admissionVars
  BY <1>1, <1>3 DEF Authenticate
<1>4. ASSUME NEW c \in Callers, EndCall(c) PROVE UNCHANGED A!admissionVars
  BY <1>1, <1>4 DEF EndCall
<1>5. CASE UNCHANGED vars
  BY <1>1, <1>5 DEF vars
<1> QED BY <1>0, <1>2, <1>3, <1>4, <1>5, OtherStepsUnseen, BeginSeen, RegisterSeen, CreateInviteSeen,
           RevokeInviteSeen, RevokePrincipalSeen, TickSeen, RestartSeen DEF Next

(* Whatever interleaves with a registration, an invite or a revocation, a  *)
(* reader of tokens and principals sees Admission: a token admits one      *)
(* principal, and only if its registration began before the token expired; *)
(* a spent or revoked one admits nobody, and who has left stays out.       *)
THEOREM AdmissionImplemented == Spec => ImplementsAdmission
<1>1. Spec => [](OInv /\ ClaimsExist)
  BY OnboardingInvariant, ClaimsAreIssued, PTL
<1>2. Init => A!AdmissionInit
  BY AdmissionInitOK
<1>3. OInv /\ ClaimsExist /\ [Next]_vars => [A!AdmissionNext]_(A!admissionVars)
  BY AdmissionStepOK
<1> QED BY <1>1, <1>2, <1>3, PTL DEF Spec, ImplementsAdmission, A!AdmissionSpec

=============================================================================
