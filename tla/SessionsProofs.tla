-------------------------------- MODULE SessionsProofs --------------------------------
(***************************************************************************)
(* Theorems about Sessions, for any users, plans and tokens and any number *)
(* of threads.                                                             *)
(***************************************************************************)
EXTENDS Sessions, SetLemmas

\* The refresh calls of one token are no more than there are threads.
LEMMA RefreshingSet ==
    ASSUME NEW t \in Token
    PROVE  /\ IsFiniteSet(Refreshing(t)) /\ Cardinality(Refreshing(t)) \in Nat
           /\ Cardinality(Proc) \in Nat /\ Cardinality(Refreshing(t)) <= Cardinality(Proc)
<1>1. Refreshing(t) \in SUBSET Proc /\ IsFiniteSet(Proc)
  BY SessionAssumption DEF Refreshing
<1> QED
  BY <1>1, SmallerSet

\* What it means that the bound on successors holds of one token.
Bounded(t) ==
    /\ IsFiniteSet(Successors(t))
    /\ Cardinality(Successors(t)) + Cardinality(Refreshing(t)) <= Cardinality(Proc)

\* The bound holds of a token without successors.
LEMMA NoSuccessors ==
    ASSUME NEW t \in Token, Successors(t) = {}
    PROVE  Bounded(t)
<1>1. IsFiniteSet(Successors(t)) /\ Cardinality(Successors(t)) = 0
  BY FS_EmptySet
<1> QED
  BY <1>1, RefreshingSet DEF Bounded

\* The bound is kept by a step that leaves the tokens alone and starts no refresh call
\* of a token with successors.
LEMMA KeepsBound ==
    ASSUME NEW t \in Token, Bounded(t), token' = token,
           Refreshing(t)' \subseteq Refreshing(t) \/ Successors(t) = {}
    PROVE  Bounded(t)'
<1>1. Successors(t)' = Successors(t)
  BY DEF Successors
<1>2. /\ IsFiniteSet(Refreshing(t)) /\ IsFiniteSet(Refreshing(t)')
      /\ Cardinality(Refreshing(t)') \in Nat /\ Cardinality(Refreshing(t)) \in Nat
      /\ Cardinality(Proc) \in Nat /\ Cardinality(Refreshing(t)') <= Cardinality(Proc)
  <2>1. Refreshing(t)' \in SUBSET Proc /\ IsFiniteSet(Proc)
    BY SessionAssumption DEF Refreshing
  <2> QED
    BY <2>1, SmallerSet, RefreshingSet
<1>3. CASE Refreshing(t)' \subseteq Refreshing(t)
  <2>1. Cardinality(Refreshing(t)') <= Cardinality(Refreshing(t))
    BY <1>2, <1>3, SmallerSet
  <2>2. Cardinality(Successors(t)) \in Nat
    BY FS_CardinalityType DEF Bounded
  <2>3. Cardinality(Successors(t)) + Cardinality(Refreshing(t)') <= Cardinality(Proc)
    BY <1>2, <2>1, <2>2 DEF Bounded
  <2> QED
    BY <1>1, <2>3 DEF Bounded
<1>4. CASE Successors(t) = {}
  <2>1. IsFiniteSet(Successors(t)) /\ Cardinality(Successors(t)) = 0
    BY <1>4, FS_EmptySet
  <2>2. Cardinality(Successors(t)) + Cardinality(Refreshing(t)') <= Cardinality(Proc)
    BY <1>2, <2>1
  <2> QED
    BY <1>1, <2>1, <2>2 DEF Bounded
<1> QED
  BY <1>3, <1>4

\* A token that is not blacklisted has no successors.
LEMMA Unspent ==
    ASSUME TokensOK, NEW t \in Token \ black
    PROVE  Successors(t) = {}
BY SessionAssumption DEF TokensOK, Successors

\* A new token is nobody's, and nowhere.
LEMMA FreshToken ==
    ASSUME IInv, Unsigned # {}
    PROVE  /\ NewToken \in Token /\ token[NewToken] = NoToken
           /\ NewToken \notin held /\ NewToken \notin black /\ NewToken \notin out \cup asked
           /\ session[NewToken] = "none"
           /\ \A p \in Proc : call[p].token # NewToken
<1>1. NewToken \in Unsigned
  BY DEF NewToken
<1>2. NewToken \in Token /\ token[NewToken] = NoToken
  BY <1>1 DEF Unsigned
<1>3. NewToken \notin held /\ NewToken \notin black /\ NewToken \notin out \cup asked /\ session[NewToken] = "none"
  BY <1>2 DEF IInv, TokensOK, Signed
<1>4. ASSUME NEW p \in Proc, call[p].token = NewToken PROVE FALSE
  <2>1. CallOK(call[p]) /\ call[p] \in Call /\ held \subseteq Token /\ NoCall.token = None
    BY DEF IInv, TypeOK, NoCall
  <2> QED
    BY <1>2, <1>3, <1>4, <2>1, SessionAssumption DEF CallOK, Call, Signed
<1> QED
  BY <1>2, <1>3, <1>4

LEMMA InitIInv == Init => IInv
<1> SUFFICES ASSUME Init PROVE IInv
  OBVIOUS
<1> USE SessionAssumption
<1>1. TypeOK
  BY DEF Init, TypeOK, NoToken, NoCall, Call
<1>2. TokensOK
  BY DEF Init, TokensOK, NoToken
<1>3. IssuedOnce /\ \A p \in Proc : CallOK(call[p])
  BY DEF Init, IssuedOnce, CallOK, NoCall
<1>4. ASSUME NEW t \in Token PROVE Bounded(t)
  <2>1. Successors(t) = {}
    BY DEF Init, Successors, NoToken
  <2> QED
    BY <2>1, NoSuccessors
<1>5. DevicesListed /\ SpentForSuccessor /\ RevokesAsked /\ RevokedIffAsked
  BY DEF Init, DevicesListed, SpentForSuccessor, RevokesAsked, RevokedIffAsked, NoCall
<1>6. SignedClaimsCurrent
  BY DEF Init, SignedClaimsCurrent, Signed
<1> QED
  BY <1>1, <1>2, <1>3, <1>4, <1>5, <1>6 DEF IInv, Bounded, SuccessorsBounded

------------------------------------------------------------------------------------
(* Steps that change one call, and nothing that lasts *)

\* r is what the call of p becomes.  It issues no token, refreshes none that was spent,
\* and gives up a refresh or a logout only by dying, or when there is no live session.
LEMMA CallStep ==
    ASSUME IInv, NEW p \in Proc, NEW r \in Call, call' = [call EXCEPT ![p] = r],
           UNCHANGED <<account, plan, token, black, session, held, outdated, out>>,
           now' \in Nat, changes' \in Nat, crashes' \in Nat, lost \subseteq lost', lost' \subseteq Token,
           asked' = asked \/ (r.pc = "revoke" /\ asked' = asked \cup {r.token}),
           r.pc = "revoke" => r.token \in out \cup asked',
           CallOK(r), r.pc \notin {"session", "answer"},
           r.pc \in {"blacklist", "rotate"} => r.token \notin black,
           call[p].pc \in {"blacklist", "rotate"} => token[call[p].token].login \in lost',
           call[p].pc \in {"find", "revoke"} =>
              \/ token[call[p].token].login \in lost'
              \/ session[call[p].token] # "live"
              \/ r.pc = "revoke" /\ r.token = call[p].token
    PROVE  IInv'
<1>1. /\ call' \in [Proc -> Call] /\ call'[p] = r
      /\ \A x \in Proc \ {p} : call'[x] = call[x]
  BY DEF IInv, TypeOK
<1>2. TypeOK'
  BY <1>1 DEF IInv, TypeOK, CallOK
<1>3. TokensOK' /\ DevicesListed' /\ SignedClaimsCurrent' /\ RevokesAsked'
  <2>1. TokensOK'
    BY DEF IInv, TokensOK, Signed, CallOK
  <2>2. RevokesAsked'
    BY <1>1 DEF IInv, RevokesAsked
  <2> QED
    BY <2>1, <2>2 DEF IInv, DevicesListed, SignedClaimsCurrent, Signed, ClaimedPlan
<1>4. \A x \in Proc : CallOK(call[x])'
  <2>1. CallOK(r) /\ \A x \in Proc : CallOK(call[x])
    BY DEF IInv
  <2> QED
    BY <1>1, <2>1 DEF CallOK, Signed
<1>5. IssuedOnce'
  BY <1>1 DEF IInv, IssuedOnce
<1>6. ASSUME NEW t \in Token PROVE Bounded(t)'
  <2>1. Bounded(t)
    BY DEF IInv, Bounded, SuccessorsBounded
  <2>2. CASE r.pc \in {"blacklist", "rotate"} /\ r.token = t
    <3>1. Successors(t) = {}
      BY <2>2, Unspent DEF IInv
    <3> QED
      BY <2>1, <3>1, KeepsBound
  <2>3. CASE ~(r.pc \in {"blacklist", "rotate"} /\ r.token = t)
    <3>1. Refreshing(t)' \subseteq Refreshing(t)
      BY <1>1, <2>3 DEF Refreshing
    <3> QED
      BY <2>1, <3>1, KeepsBound
  <2> QED
    BY <2>2, <2>3
<1>7. SpentForSuccessor'
  <2> SUFFICES ASSUME NEW t \in (held \cap black) \ out, token[t].login \notin lost'
               PROVE  held \cap Successors(t) # {} \/ Refreshing(t)' # {}
    BY DEF SpentForSuccessor, Successors
  <2>1. CASE held \cap Successors(t) # {}
    BY <2>1
  <2>2. CASE Refreshing(t) # {}
    <3>1. PICK q \in Proc : call[q].pc \in {"blacklist", "rotate"} /\ call[q].token = t
      BY <2>2 DEF Refreshing
    <3>2. q # p
      BY <3>1
    <3> QED
      BY <1>1, <3>1, <3>2 DEF Refreshing
  <2> QED
    BY <2>1, <2>2 DEF IInv, SpentForSuccessor
<1>8. RevokedIffAsked'
  <2>1. ASSUME NEW t \in Token, session[t] = "live", t \in out \cup asked', t \notin lost'
        PROVE  \E x \in Proc : call'[x].pc \in {"find", "revoke"} /\ call'[x].token = t
    <3>1. CASE t \in out \cup asked
      <4>1. PICK q \in Proc : call[q].pc \in {"find", "revoke"} /\ call[q].token = t
        BY <2>1, <3>1 DEF IInv, RevokedIffAsked
      <4>2. token[t].login = t
        BY <2>1 DEF IInv, TokensOK
      <4>3. CASE q = p
        BY <1>1, <2>1, <4>1, <4>2, <4>3
      <4>4. CASE q # p
        BY <1>1, <4>1, <4>4
      <4> QED
        BY <4>3, <4>4
    <3>2. CASE t \notin out \cup asked
      BY <1>1, <2>1, <3>2
    <3> QED
      BY <3>1, <3>2
  <2>2. \A t \in Token : session[t] = "revoked" => t \in out \cup asked'
    BY DEF IInv, RevokedIffAsked
  <2> QED
    BY <2>1, <2>2 DEF RevokedIffAsked
<1> QED
  BY <1>2, <1>3, <1>4, <1>5, <1>6, <1>7, <1>8 DEF IInv, Bounded, SuccessorsBounded

\* A call that arrives at an idle thread: r holds what it has read.
LEMMA StartStep ==
    ASSUME IInv, NEW p \in Proc, call[p] = NoCall, NEW r \in Call, Goto(p, r), CallOK(r),
           r.pc \in {"issue", "blacklist", "logout", "revoke"},
           r.pc = "blacklist" => r.token \notin black,
           asked' = IF r.pc = "revoke" THEN asked \cup {r.token} ELSE asked,
           UNCHANGED <<now, account, plan, token, black, session, held, changes, crashes, outdated, out, lost>>
    PROVE  IInv'
<1>1. call[p].pc = "idle"
  BY DEF NoCall
<1> QED
  BY <1>1, CallStep DEF Goto, IInv, TypeOK

LEMMA LoginStep ==
    ASSUME IInv, NEW p \in Proc, NEW u \in User, Login(p, u)
    PROVE  IInv'
<1> DEFINE r == [NoCall EXCEPT !.pc = "issue", !.user = u, !.verified = account[u].verified]
<1>1. r \in Call /\ r.pc = "issue" /\ r.user = u /\ r.token = None
      /\ r.verified = account[u].verified
  BY DEF NoCall, Call, IInv, TypeOK
<1>2. call[p] = NoCall /\ Goto(p, r)
      /\ UNCHANGED <<now, account, plan, token, black, session, held, changes, crashes, history>>
  BY DEF Login
<1> HIDE DEF r
<1>3. CallOK(r)
  BY <1>1 DEF CallOK
<1> QED
  BY <1>1, <1>2, <1>3, StartStep DEF history

LEMMA TokenCallStep ==
    ASSUME IInv, NEW p \in Proc, NEW t \in Token, Refresh(p, t) \/ Logout(p, t) \/ RevokeById(p, t)
    PROVE  IInv'
<1>1. ASSUME NEW pc \in {"blacklist", "logout", "revoke"}, call[p] = NoCall,
             Goto(p, [NoCall EXCEPT !.pc = pc, !.token = t]),
             asked' = IF pc = "revoke" THEN asked \cup {t} ELSE asked,
             UNCHANGED <<now, account, plan, token, black, session, held, changes, crashes, outdated, out, lost>>,
             pc \in {"blacklist", "logout"} => t \in held \ black,
             pc = "revoke" => session[t] # "none"
      PROVE  IInv'
  <2> DEFINE r == [NoCall EXCEPT !.pc = pc, !.token = t]
  <2>1. r \in Call /\ r.pc = pc /\ r.token = t
    BY DEF NoCall, Call
  <2>2. Goto(p, r)
    BY <1>1
  <2> HIDE DEF r
  <2>3. CallOK(r)
    BY <1>1, <2>1 DEF CallOK
  <2> QED
    BY <1>1, <2>1, <2>2, <2>3, StartStep
<1>2. CASE Refresh(p, t)
  BY <1>1, <1>2 DEF Refresh, Valid, history
<1>3. CASE Logout(p, t)
  BY <1>1, <1>3 DEF Logout, Valid, history
<1>4. CASE RevokeById(p, t)
  BY <1>1, <1>4 DEF RevokeById
<1> QED
  BY <1>2, <1>3, <1>4

LEMMA FindStep ==
    ASSUME IInv, NEW p \in Proc, FindSession(p)
    PROVE  IInv'
<1>1. call[p] \in Call /\ call[p].pc = "find" /\ call[p].token \in out /\ call[p].token \in Token
  BY DEF FindSession, IInv, TypeOK, CallOK
<1>2. /\ UNCHANGED <<account, plan, token, black, session, held, outdated, out, asked, lost>>
      /\ now' \in Nat /\ changes' \in Nat /\ crashes' \in Nat /\ lost \subseteq Token
  BY DEF FindSession, history, IInv, TypeOK
<1>3. CASE session[call[p].token] = "live"
  <2> DEFINE r == [call[p] EXCEPT !.pc = "revoke"]
  <2>1. r \in Call /\ r.pc = "revoke" /\ r.token = call[p].token
    BY <1>1 DEF Call
  <2>2. call' = [call EXCEPT ![p] = r]
    BY <1>3 DEF FindSession, Goto
  <2> HIDE DEF r
  <2>3. CallOK(r)
    BY <1>1, <1>3, <2>1 DEF CallOK
  <2> QED
    BY <1>1, <1>2, <2>1, <2>2, <2>3, CallStep
<1>4. CASE session[call[p].token] # "live"
  <2>1. NoCall \in Call /\ NoCall.pc = "idle" /\ CallOK(NoCall)
    BY DEF NoCall, Call, CallOK
  <2>2. call' = [call EXCEPT ![p] = NoCall]
    BY <1>4 DEF FindSession, Goto
  <2> QED
    BY <1>1, <1>2, <1>4, <2>1, <2>2, CallStep
<1> QED
  BY <1>3, <1>4

LEMMA CrashStep ==
    ASSUME IInv, NEW p \in Proc, Crash(p)
    PROVE  IInv'
<1>1. NoCall \in Call /\ NoCall.pc = "idle" /\ CallOK(NoCall)
  BY DEF NoCall, Call, CallOK
<1>2. /\ call' = [call EXCEPT ![p] = NoCall]
      /\ UNCHANGED <<account, plan, token, black, session, held, outdated, out, asked>>
      /\ now' \in Nat /\ changes' \in Nat /\ crashes' \in Nat
      /\ lost' = lost \cup {token[t].login : t \in {call[p].token} \cap Token}
  BY DEF Crash, Goto, IInv, TypeOK
<1>3. call[p] \in Call /\ call[p].pc # "idle"
  BY DEF Crash, IInv, TypeOK, CallOK
<1>4. CASE call[p].token = None
  <2>1. call[p].pc = "issue"
    BY <1>3, <1>4, SessionAssumption DEF IInv, TypeOK, CallOK, Call
  <2>2. lost' = lost /\ lost \subseteq Token
    BY <1>2, <1>4, SessionAssumption DEF IInv, TypeOK
  <2> QED
    BY <1>1, <1>2, <2>1, <2>2, CallStep
<1>5. CASE call[p].token # None
  <2>1. call[p].token \in Token
    BY <1>3, <1>5 DEF Call
  <2>2. Signed(call[p].token)
    BY <1>3, <2>1, SessionAssumption DEF IInv, TypeOK, TokensOK, CallOK, Call
  <2>3. token[call[p].token].login \in Token
    BY <2>1, <2>2 DEF Signed, IInv, TypeOK, TokenClaims
  <2>4. lost' = lost \cup {token[call[p].token].login}
    BY <1>2, <2>1
  <2>5. lost' \subseteq Token /\ lost \subseteq lost' /\ token[call[p].token].login \in lost'
    BY <2>3, <2>4 DEF IInv, TypeOK
  <2> QED
    BY <1>1, <1>2, <2>5, CallStep
<1> QED
  BY <1>4, <1>5

------------------------------------------------------------------------------------
(* Steps that sign, blacklist or hand out a token *)

\* Signing the token n leaves what is known of the other tokens as it was, but gives
\* its source a successor.
LEMMA SignStep ==
    ASSUME IInv, Unsigned # {}, NEW n \in Token, n = NewToken, NEW row \in TokenClaims,
           token' = [token EXCEPT ![n] = row]
    PROVE  /\ token' \in [Token -> TokenClaims \cup {NoToken}]
           /\ token'[n] = row /\ row # NoToken
           /\ \A t \in Token \ {n} : token'[t] = token[t]
           /\ \A t \in Token \ {row.source} : Successors(t)' = Successors(t)
           /\ row.source \in Token => Successors(row.source)' = Successors(row.source) \cup {n}
<1> USE SessionAssumption
<1>1. token[n] = NoToken /\ token \in [Token -> TokenClaims \cup {NoToken}]
  BY FreshToken DEF IInv, TypeOK
<1>2. NoToken.user = None /\ NoToken.source = None /\ row # NoToken
  BY DEF NoToken, TokenClaims
<1>3. /\ token' \in [Token -> TokenClaims \cup {NoToken}] /\ token'[n] = row
      /\ \A t \in Token \ {n} : token'[t] = token[t]
  BY <1>1
<1> QED
  BY <1>1, <1>2, <1>3 DEF Successors

LEMMA IssueStep ==
    ASSUME IInv, NEW p \in Proc, IssueToken(p)
    PROVE  IInv'
<1> USE SessionAssumption
<1>a. /\ call[p] \in Call /\ call[p].pc = "issue" /\ CallOK(call[p]) /\ Unsigned # {}
      /\ UNCHANGED <<now, account, plan, black, session, held, changes, crashes, outdated, out, asked, lost>>
  BY DEF IssueToken, history, IInv, TypeOK
<1>b. PICK u \in User : u = call[p].user
  BY <1>a DEF CallOK
<1>2. PICK n \in Token :
         /\ n = NewToken /\ token[n] = NoToken
         /\ n \notin held /\ n \notin black /\ n \notin out \cup asked
         /\ session[n] = "none" /\ \A q \in Proc : call[q].token # n
  BY <1>a, FreshToken
<1> DEFINE claims == [user |-> u, login |-> n, source |-> None,
                      exp |-> now + Lifetime, plan |-> ClaimedPlan(u)]
           next == IF call[p].verified THEN [call[p] EXCEPT !.pc = "session", !.token = n]
                   ELSE NoCall
<1>c. claims \in TokenClaims
  BY <1>b, <1>2 DEF TokenClaims, ClaimedPlan, IInv, TypeOK
<1>d. token' = [token EXCEPT ![n] = claims] /\ call' = [call EXCEPT ![p] = next]
  BY <1>a, <1>b, <1>2 DEF IssueToken, Goto, Call
<1>4. PICK row \in TokenClaims :
         /\ token' = [token EXCEPT ![n] = row]
         /\ row.user = u /\ row.login = n /\ row.source = None /\ row.plan = ClaimedPlan(u)
  BY <1>c, <1>d
<1>5. PICK r \in Call :
         /\ call' = [call EXCEPT ![p] = r]
         /\ \/ r = NoCall /\ r.pc = "idle" /\ r.token = None
            \/ r.pc = "session" /\ r.token = n /\ call[p].verified
  <2>1. next \in Call /\ \/ next = NoCall /\ next.pc = "idle" /\ next.token = None
                         \/ next.pc = "session" /\ next.token = n /\ call[p].verified
    BY <1>a, <1>2 DEF Call, NoCall
  <2> HIDE DEF next
  <2> QED
    BY <1>d, <2>1
<1> HIDE DEF claims, next
<1>1. u \in User /\ u = call[p].user /\ call[p].pc = "issue" /\ CallOK(call[p])
      /\ UNCHANGED <<now, account, plan, black, session, held, changes, crashes, outdated, out, asked, lost>>
  BY <1>a, <1>b
<1>6. /\ token' \in [Token -> TokenClaims \cup {NoToken}] /\ token'[n] = row
      /\ \A t \in Token \ {n} : token'[t] = token[t]
      /\ \A t \in Token : Successors(t)' = Successors(t)
      /\ row # NoToken
  <2>1. /\ token' \in [Token -> TokenClaims \cup {NoToken}]
        /\ token'[n] = row /\ row # NoToken
        /\ \A t \in Token \ {n} : token'[t] = token[t]
        /\ \A t \in Token \ {row.source} : Successors(t)' = Successors(t)
    BY <1>a, <1>2, <1>4, SignStep
  <2> QED
    BY <1>4, <2>1
<1>7. /\ call' \in [Proc -> Call] /\ call'[p] = r
      /\ \A x \in Proc \ {p} : call'[x] = call[x]
  BY <1>5 DEF IInv, TypeOK
<1>8. TypeOK'
  BY <1>1, <1>6, <1>7 DEF IInv, TypeOK
<1>9. TokensOK'
  BY <1>1, <1>2, <1>4, <1>6 DEF IInv, TokensOK, Signed
<1>10. \A x \in Proc : CallOK(call[x])'
  <2>1. CallOK(r)'
    <3>1. CASE r = NoCall
      BY <3>1 DEF CallOK, NoCall
    <3>2. CASE r.pc = "session"
      <4>1. account[u].verified /\ r.token = n
        BY <1>1, <1>5, <3>2 DEF CallOK, NoCall
      <4> QED
        BY <1>1, <1>2, <1>4, <1>6, <3>2, <4>1 DEF CallOK, Signed
    <3> QED
      BY <1>5, <3>1, <3>2
  <2>2. ASSUME NEW x \in Proc \ {p} PROVE CallOK(call[x])'
    <3>1. CallOK(call[x]) /\ call[x].token # n /\ call'[x] = call[x]
      BY <1>2, <1>7 DEF IInv
    <3> QED
      BY <1>1, <1>6, <3>1 DEF CallOK, Signed
  <2> QED
    BY <1>7, <2>1, <2>2
<1>11. IssuedOnce'
  BY <1>2, <1>5, <1>7 DEF IInv, IssuedOnce
<1>12. ASSUME NEW t \in Token PROVE Refreshing(t)' = Refreshing(t)
  BY <1>1, <1>5, <1>7 DEF Refreshing
<1>13. \A t \in Token : IsFiniteSet(Successors(t)')
  BY <1>6 DEF IInv
<1>14. SuccessorsBounded'
  BY <1>6, <1>12 DEF IInv, SuccessorsBounded
<1>15. DevicesListed'
  BY <1>1, <1>2, <1>6 DEF IInv, TypeOK, DevicesListed
<1>16. SpentForSuccessor'
  BY <1>1, <1>2, <1>6, <1>12 DEF IInv, TypeOK, SpentForSuccessor
<1>17. SignedClaimsCurrent'
  BY <1>1, <1>4, <1>6 DEF IInv, SignedClaimsCurrent, Signed, ClaimedPlan
<1>18. RevokesAsked' /\ RevokedIffAsked'
  <2>1. \A x \in Proc : call[x].pc \in {"find", "revoke"} => x # p /\ call'[x] = call[x]
    BY <1>1, <1>7
  <2>2. \A x \in Proc : call'[x].pc = "revoke" => call'[x] = call[x]
    BY <1>5, <1>7
  <2> QED
    BY <1>1, <2>1, <2>2 DEF IInv, RevokesAsked, RevokedIffAsked
<1> QED
  BY <1>8, <1>9, <1>10, <1>11, <1>13, <1>14, <1>15, <1>16, <1>17, <1>18 DEF IInv

LEMMA RotateStep ==
    ASSUME IInv, NEW p \in Proc, Rotate(p)
    PROVE  IInv'
<1> USE SessionAssumption
<1>a. /\ call[p].pc = "rotate" /\ CallOK(call[p]) /\ Unsigned # {} /\ held \subseteq Token
      /\ UNCHANGED <<now, account, plan, black, session, changes, crashes, out, asked, lost>>
  BY DEF Rotate, IInv, TypeOK
<1>b. PICK s \in Token : s = call[p].token /\ s \in held /\ s \in black
  BY <1>a DEF CallOK
<1>2. PICK n \in Token :
         /\ n = NewToken /\ token[n] = NoToken
         /\ n \notin held /\ n \notin black /\ n \notin out \cup asked
         /\ session[n] = "none" /\ \A q \in Proc : call[q].token # n
  BY <1>a, FreshToken
<1>1. /\ call[p].pc = "rotate" /\ call[p].token = s /\ s \in held /\ s \in black /\ s \in Token
      /\ token' = [token EXCEPT ![n] = [token[s] EXCEPT !.source = s, !.exp = now + Lifetime]]
      /\ held' = held \cup {n} /\ outdated' = outdated \cup {n : t \in {s} \cap outdated}
      /\ call' = [call EXCEPT ![p] = NoCall]
      /\ UNCHANGED <<now, account, plan, black, session, changes, crashes, out, asked, lost>>
  BY <1>a, <1>b, <1>2 DEF Rotate, Goto
<1>3. token[s] \in TokenClaims /\ Signed(s) /\ s # n
  BY <1>1, <1>2 DEF IInv, TypeOK, TokensOK, Signed
<1>4. PICK row \in TokenClaims :
         /\ token' = [token EXCEPT ![n] = row]
         /\ row.user = token[s].user /\ row.login = token[s].login
         /\ row.source = s /\ row.plan = token[s].plan
  <2> DEFINE claims == [token[s] EXCEPT !.source = s, !.exp = now + Lifetime]
  <2>1. /\ claims \in TokenClaims /\ claims.user = token[s].user /\ claims.login = token[s].login
        /\ claims.source = s /\ claims.plan = token[s].plan
    <3>1. now + Lifetime \in Nat
      BY DEF IInv, TypeOK
    <3>2. PICK e \in Nat : e = now + Lifetime
      BY <3>1
    <3> QED
      BY <1>1, <1>3, <3>2 DEF TokenClaims
  <2>2. token' = [token EXCEPT ![n] = claims]
    BY <1>1
  <2> HIDE DEF claims
  <2> QED
    BY <2>1, <2>2
<1>5. /\ token' \in [Token -> TokenClaims \cup {NoToken}] /\ token'[n] = row
      /\ \A t \in Token \ {n} : token'[t] = token[t]
      /\ \A t \in Token \ {s} : Successors(t)' = Successors(t)
      /\ Successors(s)' = Successors(s) \cup {n}
      /\ row # NoToken
  <2>1. /\ token' \in [Token -> TokenClaims \cup {NoToken}]
        /\ token'[n] = row /\ row # NoToken
        /\ \A t \in Token \ {n} : token'[t] = token[t]
        /\ \A t \in Token \ {row.source} : Successors(t)' = Successors(t)
        /\ row.source \in Token => Successors(row.source)' = Successors(row.source) \cup {n}
    BY <1>a, <1>2, <1>4, SignStep
  <2> QED
    BY <1>1, <1>4, <2>1
<1>6. /\ NoCall \in Call /\ NoCall.pc = "idle" /\ NoCall.token = None
      /\ call' \in [Proc -> Call] /\ call'[p] = NoCall
      /\ \A x \in Proc \ {p} : call'[x] = call[x]
  BY <1>1 DEF IInv, TypeOK, NoCall, Call
<1>7. TypeOK'
  BY <1>1, <1>2, <1>5, <1>6 DEF IInv, TypeOK
<1>8. TokensOK'
  BY <1>1, <1>2, <1>4, <1>5 DEF IInv, TokensOK, Signed
<1>9. \A x \in Proc : CallOK(call[x])'
  <2>1. CallOK(NoCall)'
    BY DEF CallOK, NoCall
  <2>2. ASSUME NEW x \in Proc \ {p} PROVE CallOK(call[x])'
    <3>1. CallOK(call[x]) /\ call[x].token # n /\ call'[x] = call[x]
      BY <1>2, <1>6 DEF IInv
    <3> QED
      BY <1>1, <1>5, <3>1 DEF CallOK, Signed
  <2> QED
    BY <1>6, <2>1, <2>2
<1>10. IssuedOnce'
  BY <1>6 DEF IInv, IssuedOnce
<1>11. /\ Refreshing(s)' = Refreshing(s) \ {p} /\ p \in Refreshing(s)
       /\ \A t \in Token \ {s} : Refreshing(t)' = Refreshing(t)
  BY <1>1, <1>6 DEF Refreshing
<1>12. ASSUME NEW t \in Token
       PROVE  /\ IsFiniteSet(Successors(t)')
              /\ Cardinality(Successors(t)') + Cardinality(Refreshing(t)') <= Cardinality(Proc)
  <2>1. /\ IsFiniteSet(Successors(t)) /\ Cardinality(Successors(t)) \in Nat
        /\ Cardinality(Successors(t)) + Cardinality(Refreshing(t)) <= Cardinality(Proc)
    BY FS_CardinalityType DEF IInv, SuccessorsBounded
  <2>2. CASE t # s
    BY <1>5, <1>11, <2>1, <2>2
  <2>3. CASE t = s
    <3>1. /\ IsFiniteSet(Successors(t)') /\ Cardinality(Successors(t)') \in Nat
          /\ Cardinality(Successors(t)') <= Cardinality(Successors(t)) + 1
      <4>1. /\ IsFiniteSet(Successors(t) \cup {n}) /\ Cardinality(Successors(t) \cup {n}) \in Nat
            /\ Cardinality(Successors(t) \cup {n}) <= Cardinality(Successors(t)) + 1
        BY <2>1, LargerSet
      <4> QED
        BY <1>5, <2>3, <4>1
    <3>2. /\ IsFiniteSet(Refreshing(t)) /\ Cardinality(Proc) \in Nat
      BY RefreshingSet
    <3>3. /\ Cardinality(Refreshing(t)') \in Nat
          /\ Cardinality(Refreshing(t)) = Cardinality(Refreshing(t)') + 1
      BY <1>11, <2>3, <3>2, WithoutElement
    <3> QED
      BY <2>1, <3>1, <3>2, <3>3
  <2> QED
    BY <2>2, <2>3
<1>13. DevicesListed'
  BY <1>1, <1>2, <1>4, <1>5 DEF IInv, TypeOK, DevicesListed
<1>14. SpentForSuccessor'
  <2> SUFFICES ASSUME NEW t \in (held' \cap black) \ out, token'[t].login \notin lost
               PROVE  held' \cap Successors(t)' # {} \/ Refreshing(t)' # {}
    BY <1>1 DEF SpentForSuccessor
  <2>1. t \in held /\ t # n /\ t \in Token /\ token'[t] = token[t]
    BY <1>1, <1>2, <1>5 DEF IInv, TypeOK
  <2>2. CASE t = s
    BY <1>1, <1>5, <2>2
  <2>3. CASE t # s
    BY <1>1, <1>5, <1>11, <2>1, <2>3 DEF IInv, SpentForSuccessor
  <2> QED
    BY <2>2, <2>3
<1>15. SignedClaimsCurrent'
  <2> SUFFICES ASSUME NEW t \in Token \ outdated', token'[t] # NoToken
               PROVE  token'[t].plan = ClaimedPlan(token'[t].user)
    BY <1>1 DEF SignedClaimsCurrent, Signed, ClaimedPlan
  <2>1. CASE t = n
    <3>1. s \notin outdated
      BY <1>1, <2>1
    <3> QED
      BY <1>1, <1>3, <1>4, <1>5, <2>1, <3>1 DEF IInv, SignedClaimsCurrent
  <2>2. CASE t # n
    BY <1>1, <1>5, <2>2 DEF IInv, SignedClaimsCurrent, Signed
  <2> QED
    BY <2>1, <2>2
<1>16. RevokesAsked' /\ RevokedIffAsked'
  BY <1>1, <1>6 DEF IInv, RevokesAsked, RevokedIffAsked
<1> QED
  BY <1>7, <1>8, <1>9, <1>10, <1>12, <1>13, <1>14, <1>15, <1>16 DEF IInv, SuccessorsBounded

\* The bound on successors survives a step that signs nothing and starts no refresh call.
LEMMA KeepsBounds ==
    ASSUME IInv, token' = token, \A t \in Token : Refreshing(t)' \subseteq Refreshing(t)
    PROVE  SuccessorsBounded' /\ \A t \in Token : IsFiniteSet(Successors(t)')
<1>1. ASSUME NEW t \in Token PROVE Bounded(t)'
  <2>1. Bounded(t)
    BY DEF IInv, Bounded, SuccessorsBounded
  <2> QED
    BY <2>1, KeepsBound
<1> QED
  BY <1>1 DEF Bounded, SuccessorsBounded

\* The call of p goes on to the next statement for its token, or ends.
LEMMA NextCall ==
    ASSUME IInv, NEW p \in Proc, NEW s \in Token, call[p].token = s,
           NEW pc \in {"idle", "answer", "rotate", "find"},
           Goto(p, IF pc = "idle" THEN NoCall ELSE [call[p] EXCEPT !.pc = pc])
    PROVE  /\ call' \in [Proc -> Call] /\ call'[p].pc = pc
           /\ pc = "idle" => call'[p] = NoCall
           /\ pc # "idle" => call'[p].token = s
           /\ \A x \in Proc \ {p} : call'[x] = call[x]
<1>1. call \in [Proc -> Call]
  BY DEF IInv, TypeOK
<1>2. NoCall \in Call /\ NoCall.pc = "idle"
  BY DEF NoCall, Call
<1>3. CASE pc = "idle"
  BY <1>1, <1>2, <1>3 DEF Goto
<1>4. CASE pc # "idle"
  <2> DEFINE r == [call[p] EXCEPT !.pc = pc]
  <2>1. r \in Call /\ r.pc = pc /\ r.token = s
    BY <1>1 DEF Call
  <2>2. call' = [call EXCEPT ![p] = r]
    BY <1>4 DEF Goto
  <2> HIDE DEF r
  <2> QED
    BY <1>1, <1>4, <2>1, <2>2
<1> QED
  BY <1>3, <1>4

LEMMA RecordStep ==
    ASSUME IInv, NEW p \in Proc, RecordSession(p)
    PROVE  IInv'
<1>1. /\ call[p].pc = "session" /\ CallOK(call[p])
      /\ UNCHANGED <<now, account, plan, token, black, held, changes, crashes, outdated, out, asked, lost>>
  BY DEF RecordSession, history, IInv
<1>2. PICK s \in Token \ held : /\ s = call[p].token /\ Signed(s) /\ token[s].login = s
                                /\ account[token[s].user].verified
  BY <1>1 DEF CallOK
<1>3. session' = [session EXCEPT ![s] = "live"]
  BY <1>2 DEF RecordSession
<1>4. /\ call' \in [Proc -> Call] /\ call'[p].pc = "answer" /\ call'[p].token = s
      /\ \A x \in Proc \ {p} : call'[x] = call[x]
  BY <1>2, NextCall DEF RecordSession
<1>5. TypeOK'
  BY <1>1, <1>3, <1>4 DEF IInv, TypeOK
<1>6. TokensOK' /\ SignedClaimsCurrent'
  BY <1>1, <1>2, <1>3 DEF IInv, TypeOK, TokensOK, Signed, SignedClaimsCurrent, ClaimedPlan
<1>7. \A x \in Proc : CallOK(call[x])'
  <2>1. session'[s] # "none" /\ \A t : session[t] # "none" => session'[t] # "none" \/ t \notin Token
    BY <1>3 DEF IInv, TypeOK
  <2>2. CallOK(call[p])'
    BY <1>1, <1>2, <1>4, <2>1 DEF CallOK, Signed
  <2>3. ASSUME NEW x \in Proc \ {p} PROVE CallOK(call[x])'
    <3>1. CallOK(call[x]) /\ call'[x] = call[x]
      BY <1>4 DEF IInv
    <3>2. call[x].pc = "session" => call[x].token # s /\ session'[call[x].token] = session[call[x].token]
      BY <1>1, <1>2, <1>3, <3>1 DEF IInv, IssuedOnce, TypeOK, CallOK
    <3> QED
      BY <1>1, <2>1, <3>1, <3>2 DEF CallOK, Signed
  <2> QED
    BY <2>2, <2>3
<1>8. IssuedOnce'
  BY <1>1, <1>2, <1>4 DEF IInv, IssuedOnce
<1>9. ASSUME NEW t \in Token PROVE Refreshing(t)' = Refreshing(t)
  BY <1>1, <1>4 DEF Refreshing
<1>10. SuccessorsBounded' /\ \A t \in Token : IsFiniteSet(Successors(t)')
  BY <1>1, <1>9, KeepsBounds
<1>11. DevicesListed'
  BY <1>1, <1>3 DEF IInv, TypeOK, DevicesListed
<1>12. SpentForSuccessor'
  BY <1>1, <1>9 DEF IInv, TypeOK, SpentForSuccessor, Successors
<1>13. RevokesAsked' /\ RevokedIffAsked'
  <2>1. s \notin out \cup asked
    BY <1>1, <1>2 DEF IInv, TokensOK, CallOK
  <2>2. session'[s] = "live" /\ \A t \in Token \ {s} : session'[t] = session[t]
    BY <1>3 DEF IInv, TypeOK
  <2>3. \A x \in Proc : call[x].pc \in {"find", "revoke"} => call'[x] = call[x]
    BY <1>1, <1>4
  <2> QED
    BY <1>1, <1>4, <2>1, <2>2, <2>3 DEF IInv, RevokesAsked, RevokedIffAsked
<1> QED
  BY <1>5, <1>6, <1>7, <1>8, <1>10, <1>11, <1>12, <1>13 DEF IInv

LEMMA AnswerStep ==
    ASSUME IInv, NEW p \in Proc, Answer(p)
    PROVE  IInv'
<1>1. /\ call[p].pc = "answer" /\ CallOK(call[p])
      /\ UNCHANGED <<now, account, plan, token, black, session, changes, crashes, outdated, out, asked, lost>>
  BY DEF Answer, history, IInv
<1>2. PICK s \in Token \ held : /\ s = call[p].token /\ Signed(s) /\ token[s].login = s
                                /\ account[token[s].user].verified /\ session[s] # "none"
  BY <1>1 DEF CallOK
<1>3. held' = held \cup {s}
  BY <1>2 DEF Answer
<1>4. /\ call' \in [Proc -> Call] /\ call'[p].pc = "idle" /\ call'[p] = NoCall
      /\ \A x \in Proc \ {p} : call'[x] = call[x]
  BY <1>2, NextCall DEF Answer
<1>5. TypeOK'
  BY <1>1, <1>3, <1>4 DEF IInv, TypeOK
<1>6. TokensOK' /\ SignedClaimsCurrent'
  BY <1>1, <1>2, <1>3 DEF IInv, TypeOK, TokensOK, Signed, SignedClaimsCurrent, ClaimedPlan
<1>7. \A x \in Proc : CallOK(call[x])'
  <2>1. CallOK(NoCall)'
    BY DEF CallOK, NoCall
  <2>2. ASSUME NEW x \in Proc \ {p} PROVE CallOK(call[x])'
    <3>1. CallOK(call[x]) /\ call'[x] = call[x]
          /\ (call[x].pc \in {"session", "answer"} => call[x].token # s)
      BY <1>1, <1>2, <1>4 DEF IInv, IssuedOnce
    <3> QED
      BY <1>1, <1>3, <3>1 DEF CallOK, Signed
  <2> QED
    BY <1>4, <2>1, <2>2
<1>8. IssuedOnce'
  BY <1>4 DEF IInv, IssuedOnce
<1>9. ASSUME NEW t \in Token PROVE Refreshing(t)' = Refreshing(t)
  BY <1>1, <1>4 DEF Refreshing
<1>10. SuccessorsBounded' /\ \A t \in Token : IsFiniteSet(Successors(t)')
  BY <1>1, <1>9, KeepsBounds
<1>11. DevicesListed'
  BY <1>1, <1>2, <1>3 DEF IInv, TypeOK, DevicesListed
<1>12. SpentForSuccessor'
  <2>1. s \notin black
    BY <1>2 DEF IInv, TokensOK
  <2> QED
    BY <1>1, <1>3, <1>9, <2>1 DEF IInv, TypeOK, SpentForSuccessor, Successors
<1>13. RevokesAsked' /\ RevokedIffAsked'
  BY <1>1, <1>4 DEF IInv, RevokesAsked, RevokedIffAsked
<1> QED
  BY <1>5, <1>6, <1>7, <1>8, <1>10, <1>11, <1>12, <1>13 DEF IInv

LEMMA BlacklistStep ==
    ASSUME IInv, NEW p \in Proc, BlacklistOld(p) \/ BlacklistLogout(p)
    PROVE  IInv'
<1>1. /\ call[p].pc \in {"blacklist", "logout"} /\ CallOK(call[p]) /\ held \subseteq Token
      /\ UNCHANGED <<now, account, plan, token, session, held, changes, crashes, outdated, asked, lost>>
  BY DEF BlacklistOld, BlacklistLogout, history, IInv, TypeOK
<1>2. PICK s \in Token : s = call[p].token /\ s \in held
  BY <1>1 DEF CallOK
<1>3. black' = black \cup {s}
  BY <1>2 DEF BlacklistOld, BlacklistLogout
<1>4. /\ call' \in [Proc -> Call] /\ call'[p].token = s
      /\ \/ call[p].pc = "blacklist" /\ call'[p].pc = "rotate" /\ out' = out
         \/ call[p].pc = "logout" /\ call'[p].pc = "find" /\ out' = out \cup {s}
      /\ \A x \in Proc \ {p} : call'[x] = call[x]
  BY <1>2, NextCall DEF BlacklistOld, BlacklistLogout, history
<1>5. TypeOK'
  BY <1>1, <1>3, <1>4 DEF IInv, TypeOK
<1>6. TokensOK' /\ SignedClaimsCurrent' /\ DevicesListed'
  BY <1>1, <1>2, <1>3, <1>4
  DEF IInv, TypeOK, TokensOK, Signed, SignedClaimsCurrent, ClaimedPlan, DevicesListed
<1>7. \A x \in Proc : CallOK(call[x])'
  <2>1. CallOK(call[p])'
    BY <1>1, <1>2, <1>3, <1>4 DEF CallOK
  <2>2. ASSUME NEW x \in Proc \ {p} PROVE CallOK(call[x])'
    <3>1. CallOK(call[x]) /\ call'[x] = call[x]
      BY <1>4 DEF IInv
    <3> QED
      BY <1>1, <1>3, <1>4, <3>1 DEF CallOK, Signed
  <2> QED
    BY <2>1, <2>2
<1>8. IssuedOnce'
  BY <1>4 DEF IInv, IssuedOnce
<1>9. ASSUME NEW t \in Token PROVE Refreshing(t)' = Refreshing(t)
  BY <1>1, <1>2, <1>4 DEF Refreshing
<1>10. SuccessorsBounded' /\ \A t \in Token : IsFiniteSet(Successors(t)')
  BY <1>1, <1>9, KeepsBounds
<1>11. SpentForSuccessor'
  <2> SUFFICES ASSUME NEW t \in (held \cap black') \ out', token[t].login \notin lost
               PROVE  held \cap Successors(t) # {} \/ Refreshing(t) # {}
    BY <1>1, <1>9 DEF SpentForSuccessor, Successors
  <2>1. CASE t = s
    <3>1. call[p].pc = "blacklist"
      BY <1>4, <2>1
    <3> QED
      BY <1>2, <2>1, <3>1 DEF Refreshing
  <2>2. CASE t # s
    BY <1>3, <1>4, <2>2 DEF IInv, SpentForSuccessor
  <2> QED
    BY <2>1, <2>2
<1>12. RevokesAsked' /\ RevokedIffAsked'
  <2>1. \A x \in Proc : call[x].pc \in {"find", "revoke"} => call'[x] = call[x]
    BY <1>1, <1>4
  <2>2. \A x \in Proc : call'[x].pc = "revoke" => call'[x] = call[x]
    BY <1>4
  <2>3. \A t \in Token : t \in out' => t \in out \/ (t = s /\ call'[p].pc = "find")
    BY <1>4
  <2> QED
    BY <1>1, <1>4, <2>1, <2>2, <2>3 DEF IInv, RevokesAsked, RevokedIffAsked
<1> QED
  BY <1>5, <1>6, <1>7, <1>8, <1>10, <1>11, <1>12 DEF IInv

LEMMA RevokeStep ==
    ASSUME IInv, NEW p \in Proc, RevokeSession(p)
    PROVE  IInv'
<1>1. /\ call[p].pc = "revoke" /\ CallOK(call[p])
      /\ UNCHANGED <<now, account, plan, token, black, held, changes, crashes, outdated, out, asked, lost>>
  BY DEF RevokeSession, history, IInv
<1>2. PICK s \in Token : s = call[p].token /\ session[s] # "none"
  BY <1>1 DEF CallOK
<1>3. /\ session' \in [Token -> {"none", "live", "revoked"}] /\ session'[s] = "revoked"
      /\ \A t \in Token \ {s} : session'[t] = session[t]
  BY <1>2 DEF RevokeSession, IInv, TypeOK
<1>4. /\ call' \in [Proc -> Call] /\ call'[p].pc = "idle" /\ call'[p] = NoCall
      /\ \A x \in Proc \ {p} : call'[x] = call[x]
  BY <1>2, NextCall DEF RevokeSession
<1>5. TypeOK'
  BY <1>1, <1>3, <1>4 DEF IInv, TypeOK
<1>6. \A t \in Token : session[t] # "none" <=> session'[t] # "none"
  BY <1>2, <1>3
<1>7. TokensOK' /\ SignedClaimsCurrent'
  BY <1>1, <1>6 DEF IInv, TypeOK, TokensOK, Signed, SignedClaimsCurrent, ClaimedPlan
<1>8. \A x \in Proc : CallOK(call[x])'
  <2>1. CallOK(NoCall)'
    BY DEF CallOK, NoCall
  <2>2. ASSUME NEW x \in Proc \ {p} PROVE CallOK(call[x])'
    <3>1. CallOK(call[x]) /\ call'[x] = call[x]
      BY <1>4 DEF IInv
    <3> QED
      BY <1>1, <1>6, <3>1 DEF CallOK, Signed
  <2> QED
    BY <1>4, <2>1, <2>2
<1>9. IssuedOnce'
  BY <1>4 DEF IInv, IssuedOnce
<1>10. ASSUME NEW t \in Token PROVE Refreshing(t)' = Refreshing(t)
  BY <1>1, <1>4 DEF Refreshing
<1>11. SuccessorsBounded' /\ \A t \in Token : IsFiniteSet(Successors(t)')
  BY <1>1, <1>10, KeepsBounds
<1>12. DevicesListed'
  <2> SUFFICES ASSUME NEW t \in held
               PROVE  account[token[t].user].verified /\ session'[token[t].login] # "none"
    BY <1>1 DEF DevicesListed
  <2>1. token[t] \in TokenClaims /\ session[token[t].login] # "none" /\ account[token[t].user].verified
    BY DEF IInv, TypeOK, TokensOK, Signed, DevicesListed
  <2> QED
    BY <1>6, <2>1 DEF TokenClaims
<1>13. SpentForSuccessor'
  BY <1>1, <1>10 DEF IInv, TypeOK, SpentForSuccessor, Successors
<1>14. RevokesAsked' /\ RevokedIffAsked'
  <2>1. s \in out \cup asked
    BY <1>1, <1>2 DEF IInv, RevokesAsked
  <2>2. \A x \in Proc \ {p} : call'[x] = call[x]
    BY <1>4
  <2> QED
    BY <1>1, <1>2, <1>3, <1>4, <2>1, <2>2 DEF IInv, RevokesAsked, RevokedIffAsked
<1> QED
  BY <1>5, <1>7, <1>8, <1>9, <1>11, <1>12, <1>13, <1>14 DEF IInv

------------------------------------------------------------------------------------
(* Steps of the environment *)

\* Nothing but the clock, the counters, and accounts or plans changes; who was verified
\* still is, and the tokens of who changes plan are outdated.
LEMMA EnvironmentStep ==
    ASSUME IInv, UNCHANGED <<token, black, session, held, call, crashes, out, asked, lost>>,
           now' \in Nat, changes' \in Nat,
           account' \in [User -> [active : BOOLEAN, verified : BOOLEAN]],
           \A u \in User : account[u].verified => account'[u].verified,
           plan' \in [User -> Plan \cup {None}],
           outdated \subseteq outdated', outdated' \subseteq Token,
           \A t \in Token \ outdated' : Signed(t) => plan'[token[t].user] = plan[token[t].user]
    PROVE  IInv'
<1>1. TypeOK' /\ TokensOK' /\ IssuedOnce'
  BY DEF IInv, TypeOK, TokensOK, Signed, IssuedOnce
<1>2. ASSUME NEW t \in Token, Signed(t) PROVE token[t].user \in User
  BY <1>2 DEF IInv, TypeOK, Signed, TokenClaims
<1>3. \A x \in Proc : CallOK(call[x])'
  <2> SUFFICES ASSUME NEW x \in Proc PROVE CallOK(call[x])'
    OBVIOUS
  <2>1. CallOK(call[x])
    BY DEF IInv
  <2> QED
    BY <1>2, <2>1 DEF CallOK, Signed
<1>4. DevicesListed'
  BY <1>2 DEF IInv, TypeOK, TokensOK, DevicesListed
<1>5. \A t \in Token : Refreshing(t)' = Refreshing(t)
  BY DEF Refreshing
<1>6. SuccessorsBounded' /\ \A t \in Token : IsFiniteSet(Successors(t)')
  BY <1>5, KeepsBounds
<1>7. SpentForSuccessor' /\ RevokesAsked' /\ RevokedIffAsked'
  BY <1>5 DEF IInv, TypeOK, SpentForSuccessor, Successors, RevokesAsked, RevokedIffAsked
<1>8. SignedClaimsCurrent'
  BY DEF IInv, SignedClaimsCurrent, Signed, ClaimedPlan
<1> QED
  BY <1>1, <1>3, <1>4, <1>6, <1>7, <1>8 DEF IInv

LEMMA EditStep ==
    ASSUME IInv, NEW u \in User, EditAccount(u, "verified", TRUE) \/ EditAccount(u, "active", FALSE)
    PROVE  IInv'
<1>1. /\ account' \in [User -> [active : BOOLEAN, verified : BOOLEAN]] /\ changes' \in Nat
      /\ \A v \in User : account[v].verified => account'[v].verified
  <2>1. /\ account \in [User -> [active : BOOLEAN, verified : BOOLEAN]]
        /\ account[u] \in [active : BOOLEAN, verified : BOOLEAN] /\ changes \in Nat
    BY DEF IInv, TypeOK
  <2>3. changes' = changes + 1
    BY DEF EditAccount
  <2>2. PICK row \in [active : BOOLEAN, verified : BOOLEAN] :
           /\ account' = [account EXCEPT ![u] = row]
           /\ account[u].verified => row.verified
    <3>1. CASE EditAccount(u, "verified", TRUE)
      <4>1. [account[u] EXCEPT !.verified = TRUE] \in [active : BOOLEAN, verified : BOOLEAN]
        BY <2>1
      <4>2. account' = [account EXCEPT ![u] = [account[u] EXCEPT !.verified = TRUE]]
        BY <2>1, <3>1 DEF EditAccount
      <4>3. [account[u] EXCEPT !.verified = TRUE].verified = TRUE
        BY <2>1
      <4> QED
        BY <4>1, <4>2, <4>3
    <3>2. CASE EditAccount(u, "active", FALSE)
      <4>1. [account[u] EXCEPT !.active = FALSE] \in [active : BOOLEAN, verified : BOOLEAN]
        BY <2>1
      <4>2. account' = [account EXCEPT ![u] = [account[u] EXCEPT !.active = FALSE]]
        BY <2>1, <3>2 DEF EditAccount
      <4>3. [account[u] EXCEPT !.active = FALSE].verified = account[u].verified
        BY <2>1
      <4> QED
        BY <4>1, <4>2, <4>3
    <3> QED
      BY <3>1, <3>2
  <2> QED
    BY <2>1, <2>2, <2>3
<1> QED
  BY <1>1, EnvironmentStep DEF EditAccount, history, IInv, TypeOK

LEMMA ChangePlanStep ==
    ASSUME IInv, NEW u \in User, NEW pl \in Plan \cup {None}, ChangePlan(u, pl)
    PROVE  IInv'
<1>1. /\ plan' \in [User -> Plan \cup {None}] /\ changes' \in Nat
      /\ \A v \in User \ {u} : plan'[v] = plan[v]
      /\ outdated' = outdated \cup {t \in Token : token[t].user = u}
  BY DEF ChangePlan, IInv, TypeOK
<1>2. \A t \in Token \ outdated' : Signed(t) => plan'[token[t].user] = plan[token[t].user]
  BY <1>1 DEF IInv, TypeOK, Signed, TokenClaims
<1> QED
  BY <1>1, <1>2, EnvironmentStep DEF ChangePlan, IInv, TypeOK

LEMMA NextIInv == IInv /\ [Next]_vars => IInv'
<1> SUFFICES ASSUME IInv, [Next]_vars PROVE IInv'
  OBVIOUS
<1>1. ASSUME NEW p \in Proc, NEW u \in User, Login(p, u) PROVE IInv'
  BY <1>1, LoginStep
<1>2. ASSUME NEW p \in Proc, NEW t \in Token, Refresh(p, t) \/ Logout(p, t) \/ RevokeById(p, t)
      PROVE  IInv'
  BY <1>2, TokenCallStep
<1>3. ASSUME NEW p \in Proc, Proceed(p) PROVE IInv'
  BY <1>3, IssueStep, RecordStep, AnswerStep, BlacklistStep, RotateStep, FindStep, RevokeStep
  DEF Proceed
<1>4. ASSUME NEW p \in Proc, Crash(p) PROVE IInv'
  BY <1>4, CrashStep
<1>5. ASSUME NEW u \in User, EditAccount(u, "verified", TRUE) \/ EditAccount(u, "active", FALSE)
      PROVE  IInv'
  BY <1>5, EditStep
<1>6. ASSUME NEW u \in User, NEW pl \in Plan \cup {None}, ChangePlan(u, pl) PROVE IInv'
  BY <1>6, ChangePlanStep
<1>7. CASE Tick
  BY <1>7, EnvironmentStep DEF Tick, history, IInv, TypeOK
<1>8. CASE UNCHANGED vars
  BY <1>8, EnvironmentStep DEF vars, history, IInv, TypeOK
<1> QED
  BY <1>1, <1>2, <1>3, <1>4, <1>5, <1>6, <1>7, <1>8 DEF Next

------------------------------------------------------------------------------------
(* The theorems *)

\* IInv holds in every reachable state of login, refresh, logout and the revocation of
\* sessions (authentication/views.py:31-217).
THEOREM Invariance == Spec => []IInv
<1>1. Init => IInv
  BY InitIInv
<1>2. IInv /\ [Next]_vars => IInv'
  BY NextIInv
<1> QED
  BY <1>1, <1>2, PTL DEF Spec

\* Tokens, sessions and calls keep their shape.
THEOREM TypeCorrect == Spec => []TypeOK
<1>1. IInv => TypeOK
  BY DEF IInv
<1> QED
  BY <1>1, Invariance, PTL

\* However refreshes of one token race, it gets no more successors than there are
\* threads (BLACKLIST_AFTER_ROTATION, settings/base.py:229).
THEOREM BoundedSuccessors == Spec => []SuccessorsBounded
<1>1. IInv => SuccessorsBounded
  BY DEF IInv
<1> QED
  BY <1>1, Invariance, PTL

\* Whoever holds a refresh token has a verified account and a session row
\* (LoginSerializer.validate, serializers.py; record_session, services.py).
THEOREM ListedDevices == Spec => []DevicesListed
<1>1. IInv => DevicesListed
  BY DEF IInv
<1> QED
  BY <1>1, Invariance, PTL

\* A token is blacklisted for a successor, for a logout, or by a call that died
\* (ROTATE_REFRESH_TOKENS, settings/base.py:228).
THEOREM SpentTokens == Spec => []SpentForSuccessor
<1>1. IInv => SpentForSuccessor
  BY DEF IInv
<1> QED
  BY <1>1, Invariance, PTL

\* The plan claim differs from the plan only if the user has changed plan since the
\* login (get_token, tokens.py:20-33).
THEOREM CurrentClaims == Spec => []ClaimsCurrent
<1>1. IInv => ClaimsCurrent
  BY DEF IInv, TypeOK, TokensOK, SignedClaimsCurrent, ClaimsCurrent
<1> QED
  BY <1>1, Invariance, PTL

\* A session is revoked only if its user asked for it by its id or logged out with the
\* token of the login itself; and it is revoked then, but for calls that are on their way or
\* died.  Of a logout with a token that a refresh returned it says that nothing is revoked
\* (logout and revoke_session, services.py:155-176).
THEOREM ExactRevocation == Spec => []RevokedIffAsked
<1>1. IInv => RevokedIffAsked
  BY DEF IInv
<1> QED
  BY <1>1, Invariance, PTL
====================================================================================
