---------------------------- MODULE MemberProofs ----------------------------
(***************************************************************************)
(* Who signs in and what they may do: what MagicLink keeps to, for any     *)
(* number of requests, posts, users and commands, any limit and any number *)
(* of tries; and what MemberPermission keeps to, for any scopes, any of    *)
(* them about identity, and any number of changes of the policy.  The      *)
(* decisions are pure, so most of the second argument is about them; what  *)
(* the state adds is PermissionInv, that a grant's code, token and access  *)
(* token lie within its request and follow one another.                    *)
(***************************************************************************)
EXTENDS MagicLink, MemberPermission, FiniteSetTheorems, TLAPS

\* Every step keeps every variable to its type.
LEMMA TypeStep == TypeOK /\ [Next]_vars => TypeOK'
<1> SUFFICES ASSUME TypeOK, [Next]_vars PROVE TypeOK'
  OBVIOUS
<1> USE MagicLinkAssumption
<1>1. ASSUME NEW r \in Requests, Admit(r) PROVE TypeOK'
  BY <1>1 DEF Admit, TypeOK, firmVars, userVars, postVars
<1>2. ASSUME NEW r \in Requests, Count(r) PROVE TypeOK'
  BY <1>2 DEF Count, TypeOK, firmVars, userVars, rowVars, postVars
<1>3. ASSUME NEW r \in Requests, Reserve(r) PROVE TypeOK'
  BY <1>3 DEF Reserve, TypeOK, firmVars, userVars, postVars
<1>4. ASSUME NEW r \in Requests, SendFails(r) PROVE TypeOK'
  BY <1>4 DEF SendFails, TypeOK, firmVars, userVars, postVars
<1>5. ASSUME NEW r \in Requests, Stop(r) PROVE TypeOK'
  BY <1>5 DEF Stop, TypeOK, firmVars, userVars, rowVars, postVars
<1>6. ASSUME NEW r \in Requests, Expire(r) PROVE TypeOK'
  BY <1>6 DEF Expire, TypeOK, firmVars, userVars, postVars
<1>7. ASSUME NEW r \in Requests, LeaveWindow(r) PROVE TypeOK'
  BY <1>7 DEF LeaveWindow, TypeOK, firmVars, userVars, postVars
<1>8. ASSUME NEW p \in Posts, NEW r \in Requests, PostLink(p, r) PROVE TypeOK'
  BY <1>8 DEF PostLink, TypeOK, firmVars, userVars, rowVars, Find
<1>9. ASSUME NEW p \in Posts, NEW guess \in Requests \cup {NoRequest}, TryCode(p, guess)
      PROVE  TypeOK'
  BY <1>9 DEF TryCode, TypeOK, firmVars, userVars, postVars, Find, Held, Exhausted
<1>10. ASSUME NEW p \in Posts, LockAddress(p) PROVE TypeOK'
  BY <1>10 DEF LockAddress, TypeOK, firmVars, userVars, rowVars, Move
<1>11. ASSUME NEW p \in Posts, ShareFirm(p) PROVE TypeOK'
  BY <1>11 DEF ShareFirm, TypeOK, firmVars, userVars, rowVars, Move
<1>12. ASSUME NEW p \in Posts, Check(p) PROVE TypeOK'
  BY <1>12 DEF Check, TypeOK, firmVars, userVars, rowVars, Move, Answer
<1>13. ASSUME NEW p \in Posts, SignIn(p) PROVE TypeOK'
  BY <1>13 DEF SignIn, TypeOK, firmVars, Answer
<1>14. ASSUME NEW p \in Posts, FindConsumed(p) PROVE TypeOK'
  BY <1>14 DEF FindConsumed, TypeOK, firmVars, userVars, rowVars, Move
<1>15. ASSUME NEW p \in Posts, RecordRefusal(p) PROVE TypeOK'
  BY <1>15 DEF RecordRefusal, TypeOK, firmVars, userVars, Answer
<1>16. ASSUME NEW p \in Posts, FailPost(p) PROVE TypeOK'
  BY <1>16 DEF FailPost, TypeOK, firmVars, userVars, rowVars, Answer
<1>17. ASSUME SwitchLinks PROVE TypeOK'
  BY <1>17 DEF SwitchLinks, TypeOK, userVars, postVars, Command
<1>18. ASSUME SetAdmission PROVE TypeOK'
  BY <1>18 DEF SetAdmission, TypeOK, userVars, postVars, Command
<1>19. ASSUME DisableDomain PROVE TypeOK'
  BY <1>19 DEF DisableDomain, TypeOK, userVars, postVars, Command
<1>20. ASSUME EnableDomain PROVE TypeOK'
  BY <1>20 DEF EnableDomain, TypeOK, userVars, postVars, Command
<1>21. ASSUME NEW u \in Users, ListUser(u) PROVE TypeOK'
  BY <1>21 DEF ListUser, TypeOK, firmVars, postVars, Command
<1>22. ASSUME NEW u \in Users, RemoveMember(u) PROVE TypeOK'
  BY <1>22 DEF RemoveMember, TypeOK, firmVars, postVars, Command
<1>23. ASSUME NEW u \in Users, ReinstateMember(u) PROVE TypeOK'
  BY <1>23 DEF ReinstateMember, TypeOK, firmVars, postVars, Command
<1>24. ASSUME NEW u \in Users, DisableUser(u) PROVE TypeOK'
  BY <1>24 DEF DisableUser, TypeOK, firmVars, postVars, Command
<1>25. ASSUME NEW u \in Users, EnableUser(u) PROVE TypeOK'
  BY <1>25 DEF EnableUser, TypeOK, firmVars, postVars, Command
<1>26. ASSUME NEW u \in Users, ReleaseUser(u) PROVE TypeOK'
  BY <1>26 DEF ReleaseUser, TypeOK, firmVars, postVars, Command
<1>27. CASE UNCHANGED vars
  BY <1>27 DEF TypeOK, vars, firmVars, userVars, rowVars, postVars
<1> QED
  BY <1>1, <1>2, <1>3, <1>4, <1>5, <1>6, <1>7, <1>8, <1>9, <1>10, <1>11, <1>12, <1>13, <1>14,
     <1>15, <1>16, <1>17, <1>18, <1>19, <1>20, <1>21, <1>22, <1>23, <1>24, <1>25, <1>26, <1>27
     DEF Next, JobStep, PostStep, CommandStep


\* Every variable keeps to its type (MagicLink!TypeOK).
THEOREM MagicLinkTypeCorrect == Spec => []TypeOK
<1>1. Init => TypeOK
  BY MagicLinkAssumption DEF Init, TypeOK
<1> QED
  BY <1>1, TypeStep, PTL DEF Spec

\* One transaction at a time holds the address: who takes it finds it free.
LEMMA AddressStep == TypeOK /\ AddressIsHeldOnce /\ [Next]_vars => AddressIsHeldOnce'
<1> SUFFICES ASSUME TypeOK, AddressIsHeldOnce, [Next]_vars PROVE AddressIsHeldOnce'
  OBVIOUS
<1> USE MagicLinkAssumption
<1>1. ASSUME NEW r \in Requests, Admit(r) PROVE AddressIsHeldOnce'
  BY <1>1 DEF Admit, AddressIsHeldOnce, postVars
<1>2. ASSUME NEW r \in Requests, Count(r) PROVE AddressIsHeldOnce'
  BY <1>2 DEF Count, AddressIsHeldOnce, Addressed, AddressFree, postVars
<1>3. ASSUME NEW r \in Requests, Reserve(r) PROVE AddressIsHeldOnce'
  BY <1>3 DEF Reserve, AddressIsHeldOnce, postVars
<1>4. ASSUME NEW r \in Requests, SendFails(r) PROVE AddressIsHeldOnce'
  BY <1>4 DEF SendFails, AddressIsHeldOnce, postVars
<1>5. ASSUME NEW r \in Requests, Stop(r) PROVE AddressIsHeldOnce'
  BY <1>5 DEF Stop, AddressIsHeldOnce, postVars
<1>6. ASSUME NEW r \in Requests, Expire(r) PROVE AddressIsHeldOnce'
  BY <1>6 DEF Expire, AddressIsHeldOnce, postVars
<1>7. ASSUME NEW r \in Requests, LeaveWindow(r) PROVE AddressIsHeldOnce'
  BY <1>7 DEF LeaveWindow, AddressIsHeldOnce, postVars
<1>8. ASSUME NEW p \in Posts, NEW r \in Requests, PostLink(p, r) PROVE AddressIsHeldOnce'
  BY <1>8 DEF PostLink, Find, AddressIsHeldOnce, Addressed
<1>9. ASSUME NEW p \in Posts, NEW guess \in Requests \cup {NoRequest}, TryCode(p, guess)
      PROVE  AddressIsHeldOnce'
  BY <1>9 DEF TryCode, Find, TypeOK, AddressIsHeldOnce, Addressed, postVars
<1>10. ASSUME NEW p \in Posts, LockAddress(p) PROVE AddressIsHeldOnce'
  BY <1>10 DEF LockAddress, Move, AddressIsHeldOnce, Addressed, AddressFree
<1>11. ASSUME NEW p \in Posts, ShareFirm(p) PROVE AddressIsHeldOnce'
  BY <1>11 DEF ShareFirm, Move, AddressIsHeldOnce, Addressed
<1>12. ASSUME NEW p \in Posts, Check(p) PROVE AddressIsHeldOnce'
  BY <1>12 DEF Check, Move, Answer, TypeOK, AddressIsHeldOnce, Addressed
<1>13. ASSUME NEW p \in Posts, SignIn(p) PROVE AddressIsHeldOnce'
  BY <1>13 DEF SignIn, Answer, AddressIsHeldOnce, Addressed
<1>14. ASSUME NEW p \in Posts, FindConsumed(p) PROVE AddressIsHeldOnce'
  BY <1>14 DEF FindConsumed, Move, AddressIsHeldOnce, Addressed
<1>15. ASSUME NEW p \in Posts, RecordRefusal(p) PROVE AddressIsHeldOnce'
  BY <1>15 DEF RecordRefusal, Answer, AddressIsHeldOnce, Addressed
<1>16. ASSUME NEW p \in Posts, FailPost(p) PROVE AddressIsHeldOnce'
  BY <1>16 DEF FailPost, Answer, AddressIsHeldOnce, Addressed
<1>17. CASE CommandStep
  BY <1>17 DEF CommandStep, SwitchLinks, SetAdmission, DisableDomain, EnableDomain, ListUser,
         RemoveMember, ReinstateMember, DisableUser, EnableUser, ReleaseUser, Command,
         AddressIsHeldOnce, postVars
<1>18. CASE UNCHANGED vars
  BY <1>18 DEF vars, AddressIsHeldOnce, postVars
<1> QED
  BY <1>1, <1>2, <1>3, <1>4, <1>5, <1>6, <1>7, <1>8, <1>9, <1>10, <1>11, <1>12, <1>13, <1>14,
     <1>15, <1>16, <1>17, <1>18
     DEF Next, JobStep, PostStep

\* A row is made once, and its token serves one session.
LEMMA RowsStep == TypeOK /\ RowsHold /\ ChecksHold /\ [Next]_vars => RowsHold'
<1> SUFFICES ASSUME TypeOK, RowsHold, ChecksHold, [Next]_vars PROVE RowsHold'
  OBVIOUS
<1> USE MagicLinkAssumption
<1>1. ASSUME NEW r \in Requests, Admit(r) PROVE RowsHold'
  BY <1>1 DEF Admit, RowsHold
<1>2. ASSUME NEW r \in Requests, Count(r) PROVE RowsHold'
  BY <1>2 DEF Count, RowsHold, rowVars
<1>3. ASSUME NEW r \in Requests, Reserve(r) PROVE RowsHold'
  BY <1>3 DEF Reserve, TypeOK, RowsHold
<1>4. ASSUME NEW r \in Requests, SendFails(r) PROVE RowsHold'
  BY <1>4 DEF SendFails, RowsHold
<1>5. ASSUME NEW r \in Requests, Stop(r) PROVE RowsHold'
  BY <1>5 DEF Stop, RowsHold, rowVars
<1>6. ASSUME NEW r \in Requests, Expire(r) PROVE RowsHold'
  BY <1>6 DEF Expire, RowsHold
<1>7. ASSUME NEW r \in Requests, LeaveWindow(r) PROVE RowsHold'
  BY <1>7 DEF LeaveWindow, RowsHold
<1>8. ASSUME NEW p \in Posts, NEW r \in Requests, PostLink(p, r) PROVE RowsHold'
  BY <1>8 DEF PostLink, RowsHold, rowVars
<1>9. ASSUME NEW p \in Posts, NEW guess \in Requests \cup {NoRequest}, TryCode(p, guess)
      PROVE  RowsHold'
  BY <1>9 DEF TryCode, Held, Exhausted, RowsHold, Live
<1>10. ASSUME NEW p \in Posts, LockAddress(p) PROVE RowsHold'
  BY <1>10 DEF LockAddress, RowsHold, rowVars
<1>11. ASSUME NEW p \in Posts, ShareFirm(p) PROVE RowsHold'
  BY <1>11 DEF ShareFirm, RowsHold, rowVars
<1>12. ASSUME NEW p \in Posts, Check(p) PROVE RowsHold'
  BY <1>12 DEF Check, RowsHold, rowVars
<1>13. ASSUME NEW p \in Posts, SignIn(p) PROVE RowsHold'
  BY <1>13 DEF SignIn, RowsHold
<1>14. ASSUME NEW p \in Posts, FindConsumed(p) PROVE RowsHold'
  BY <1>14 DEF FindConsumed, RowsHold, rowVars
<1>15. ASSUME NEW p \in Posts, RecordRefusal(p) PROVE RowsHold'
  BY <1>15 DEF RecordRefusal, RowsHold
<1>16. ASSUME NEW p \in Posts, FailPost(p) PROVE RowsHold'
  BY <1>16 DEF FailPost, RowsHold, rowVars
<1>17. ASSUME SwitchLinks PROVE RowsHold'
  BY <1>17 DEF SwitchLinks, Command, RowsHold
<1>18. ASSUME SetAdmission PROVE RowsHold'
  BY <1>18 DEF SetAdmission, Command, RowsHold
<1>19. ASSUME DisableDomain PROVE RowsHold'
  BY <1>19 DEF DisableDomain, Command, RowsHold
<1>20. ASSUME EnableDomain PROVE RowsHold'
  BY <1>20 DEF EnableDomain, Command, RowsHold
<1>21. ASSUME NEW u \in Users, ListUser(u) PROVE RowsHold'
  BY <1>21 DEF ListUser, Command, RowsHold
<1>22. ASSUME NEW u \in Users, RemoveMember(u) PROVE RowsHold'
  BY <1>22 DEF RemoveMember, Command, RowsHold
<1>23. ASSUME NEW u \in Users, ReinstateMember(u) PROVE RowsHold'
  BY <1>23 DEF ReinstateMember, Command, RowsHold
<1>24. ASSUME NEW u \in Users, DisableUser(u) PROVE RowsHold'
  BY <1>24 DEF DisableUser, Command, RowsHold
<1>25. ASSUME NEW u \in Users, EnableUser(u) PROVE RowsHold'
  BY <1>25 DEF EnableUser, Command, RowsHold
<1>26. ASSUME NEW u \in Users, ReleaseUser(u) PROVE RowsHold'
  BY <1>26 DEF ReleaseUser, Command, RowsHold
<1>27. CASE UNCHANGED vars
  BY <1>27 DEF vars, RowsHold, rowVars
<1> QED
  BY <1>1, <1>2, <1>3, <1>4, <1>5, <1>6, <1>7, <1>8, <1>9, <1>10, <1>11, <1>12, <1>13, <1>14,
     <1>15, <1>16, <1>17, <1>18, <1>19, <1>20, <1>21, <1>22, <1>23, <1>24, <1>25, <1>26, <1>27
     DEF Next, JobStep, PostStep, CommandStep

\* What a confirmation has checked stays as it was until it ends.
LEMMA ChecksStep ==
  TypeOK /\ AddressIsHeldOnce /\ RowsHold /\ ChecksHold /\ [Next]_vars => ChecksHold'
<1> SUFFICES ASSUME TypeOK, AddressIsHeldOnce, RowsHold, ChecksHold, [Next]_vars
             PROVE ChecksHold'
  OBVIOUS
<1> USE MagicLinkAssumption
<1>1. ASSUME NEW r \in Requests, Admit(r) PROVE ChecksHold'
  BY <1>1 DEF Admit, ChecksHold, firmVars, userVars, postVars
<1>2. ASSUME NEW r \in Requests, Count(r) PROVE ChecksHold'
  BY <1>2 DEF Count, ChecksHold, firmVars, userVars, rowVars, postVars
<1>3. ASSUME NEW r \in Requests, Reserve(r) PROVE ChecksHold'
  BY <1>3 DEF Reserve, ChecksHold, AddressIsHeldOnce, Addressed, postVars
<1>4. ASSUME NEW r \in Requests, SendFails(r) PROVE ChecksHold'
  BY <1>4 DEF SendFails, ChecksHold, RowFree, LocksRow, firmVars, userVars, postVars
<1>5. ASSUME NEW r \in Requests, Stop(r) PROVE ChecksHold'
  BY <1>5 DEF Stop, ChecksHold, firmVars, userVars, rowVars, postVars
<1>6. ASSUME NEW r \in Requests, Expire(r) PROVE ChecksHold'
  BY <1>6 DEF Expire, ChecksHold, firmVars, userVars, postVars
<1>7. ASSUME NEW r \in Requests, LeaveWindow(r) PROVE ChecksHold'
  BY <1>7 DEF LeaveWindow, ChecksHold, firmVars, userVars, postVars
<1>8. ASSUME NEW p \in Posts, NEW r \in Requests, PostLink(p, r) PROVE ChecksHold'
  BY <1>8 DEF PostLink, Find, TypeOK, ChecksHold, firmVars, userVars, rowVars
<1>9. ASSUME NEW p \in Posts, NEW guess \in Requests \cup {NoRequest}, TryCode(p, guess)
      PROVE  ChecksHold'
  BY <1>9 DEF TryCode, Find, Held, Exhausted, TypeOK, ChecksHold, RowFree, LocksRow, firmVars,
         userVars, postVars
<1>10. ASSUME NEW p \in Posts, LockAddress(p) PROVE ChecksHold'
  BY <1>10 DEF LockAddress, Move, ChecksHold, firmVars, userVars, rowVars
<1>11. ASSUME NEW p \in Posts, ShareFirm(p) PROVE ChecksHold'
  BY <1>11 DEF ShareFirm, Move, ChecksHold, AddressIsHeldOnce, Addressed
<1>12. ASSUME NEW p \in Posts, Check(p) PROVE ChecksHold'
  BY <1>12 DEF Check, Move, Answer, TypeOK, ChecksHold, RowsHold, Live, Good, Admitted,
         firmVars, userVars, rowVars
<1>13. ASSUME NEW p \in Posts, SignIn(p) PROVE ChecksHold'
  BY <1>13 DEF SignIn, Answer, TypeOK, ChecksHold, AddressIsHeldOnce, Addressed
<1>14. ASSUME NEW p \in Posts, FindConsumed(p) PROVE ChecksHold'
  BY <1>14 DEF FindConsumed, Move, TypeOK, ChecksHold, AddressIsHeldOnce, Addressed
<1>15. ASSUME NEW p \in Posts, RecordRefusal(p) PROVE ChecksHold'
  BY <1>15 DEF RecordRefusal, Answer, TypeOK, ChecksHold, firmVars, userVars
<1>16. ASSUME NEW p \in Posts, FailPost(p) PROVE ChecksHold'
  BY <1>16 DEF FailPost, Answer, TypeOK, ChecksHold, firmVars, userVars, rowVars
<1>17. ASSUME SwitchLinks PROVE ChecksHold'
  BY <1>17 DEF SwitchLinks, Command, ChecksHold, FirmFree, SharesFirm, postVars
<1>18. ASSUME SetAdmission PROVE ChecksHold'
  BY <1>18 DEF SetAdmission, Command, ChecksHold, FirmFree, SharesFirm, postVars
<1>19. ASSUME DisableDomain PROVE ChecksHold'
  BY <1>19 DEF DisableDomain, Command, ChecksHold, FirmFree, SharesFirm, postVars
<1>20. ASSUME EnableDomain PROVE ChecksHold'
  BY <1>20 DEF EnableDomain, Command, ChecksHold, postVars
<1>21. ASSUME NEW u \in Users, ListUser(u) PROVE ChecksHold'
  BY <1>21 DEF ListUser, Command, ChecksHold, firmVars, postVars
<1>22. ASSUME NEW u \in Users, RemoveMember(u) PROVE ChecksHold'
  BY <1>22 DEF RemoveMember, Command, ChecksHold, FirmFree, SharesFirm, postVars
<1>23. ASSUME NEW u \in Users, ReinstateMember(u) PROVE ChecksHold'
  BY <1>23 DEF ReinstateMember, Command, ChecksHold, FirmFree, SharesFirm, postVars
<1>24. ASSUME NEW u \in Users, DisableUser(u) PROVE ChecksHold'
  BY <1>24 DEF DisableUser, Command, ChecksHold, UserFree, SharesHolder, firmVars, postVars
<1>25. ASSUME NEW u \in Users, EnableUser(u) PROVE ChecksHold'
  BY <1>25 DEF EnableUser, Command, ChecksHold, firmVars, postVars
<1>26. ASSUME NEW u \in Users, ReleaseUser(u) PROVE ChecksHold'
  BY <1>26 DEF ReleaseUser, Command, ChecksHold, RowFree, LocksRow, postVars
<1>27. CASE UNCHANGED vars
  BY <1>27 DEF vars, ChecksHold, firmVars, userVars, rowVars, postVars
<1> QED
  BY <1>1, <1>2, <1>3, <1>4, <1>5, <1>6, <1>7, <1>8, <1>9, <1>10, <1>11, <1>12, <1>13, <1>14,
     <1>15, <1>16, <1>17, <1>18, <1>19, <1>20, <1>21, <1>22, <1>23, <1>24, <1>25, <1>26, <1>27
     DEF Next, JobStep, PostStep, CommandStep

\* No session outlives its domain or its user.
LEMMA SessionsStep ==
  TypeOK /\ ChecksHold /\ LostDomainEndsSessions /\ EndedUserHasNoSession /\ [Next]_vars
    => (LostDomainEndsSessions /\ EndedUserHasNoSession)'
<1> SUFFICES ASSUME TypeOK, ChecksHold, LostDomainEndsSessions, EndedUserHasNoSession, [Next]_vars
             PROVE (LostDomainEndsSessions /\ EndedUserHasNoSession)'
  OBVIOUS
<1> USE MagicLinkAssumption
<1>1. ASSUME NEW r \in Requests, Admit(r)
      PROVE  (LostDomainEndsSessions /\ EndedUserHasNoSession)'
  BY <1>1 DEF Admit, LostDomainEndsSessions, EndedUserHasNoSession, firmVars, userVars
<1>2. ASSUME NEW r \in Requests, Count(r)
      PROVE  (LostDomainEndsSessions /\ EndedUserHasNoSession)'
  BY <1>2 DEF Count, LostDomainEndsSessions, EndedUserHasNoSession, firmVars, userVars
<1>3. ASSUME NEW r \in Requests, Reserve(r)
      PROVE  (LostDomainEndsSessions /\ EndedUserHasNoSession)'
  BY <1>3 DEF Reserve, LostDomainEndsSessions, EndedUserHasNoSession, firmVars, userVars
<1>4. ASSUME NEW r \in Requests, SendFails(r)
      PROVE  (LostDomainEndsSessions /\ EndedUserHasNoSession)'
  BY <1>4 DEF SendFails, LostDomainEndsSessions, EndedUserHasNoSession, firmVars, userVars
<1>5. ASSUME NEW r \in Requests, Stop(r)
      PROVE  (LostDomainEndsSessions /\ EndedUserHasNoSession)'
  BY <1>5 DEF Stop, LostDomainEndsSessions, EndedUserHasNoSession, firmVars, userVars
<1>6. ASSUME NEW r \in Requests, Expire(r)
      PROVE  (LostDomainEndsSessions /\ EndedUserHasNoSession)'
  BY <1>6 DEF Expire, LostDomainEndsSessions, EndedUserHasNoSession, firmVars, userVars
<1>7. ASSUME NEW r \in Requests, LeaveWindow(r)
      PROVE  (LostDomainEndsSessions /\ EndedUserHasNoSession)'
  BY <1>7 DEF LeaveWindow, LostDomainEndsSessions, EndedUserHasNoSession, firmVars, userVars
<1>8. ASSUME NEW p \in Posts, NEW r \in Requests, PostLink(p, r)
      PROVE  (LostDomainEndsSessions /\ EndedUserHasNoSession)'
  BY <1>8 DEF PostLink, LostDomainEndsSessions, EndedUserHasNoSession, firmVars, userVars
<1>9. ASSUME NEW p \in Posts, NEW guess \in Requests \cup {NoRequest}, TryCode(p, guess)
      PROVE  (LostDomainEndsSessions /\ EndedUserHasNoSession)'
  BY <1>9 DEF TryCode, LostDomainEndsSessions, EndedUserHasNoSession, firmVars, userVars
<1>10. ASSUME NEW p \in Posts, LockAddress(p)
       PROVE  (LostDomainEndsSessions /\ EndedUserHasNoSession)'
  BY <1>10 DEF LockAddress, LostDomainEndsSessions, EndedUserHasNoSession, firmVars, userVars
<1>11. ASSUME NEW p \in Posts, ShareFirm(p)
       PROVE  (LostDomainEndsSessions /\ EndedUserHasNoSession)'
  BY <1>11 DEF ShareFirm, LostDomainEndsSessions, EndedUserHasNoSession, firmVars, userVars
<1>12. ASSUME NEW p \in Posts, Check(p) PROVE (LostDomainEndsSessions /\ EndedUserHasNoSession)'
  BY <1>12 DEF Check, LostDomainEndsSessions, EndedUserHasNoSession, firmVars, userVars
<1>13. ASSUME NEW p \in Posts, SignIn(p)
       PROVE  (LostDomainEndsSessions /\ EndedUserHasNoSession)'
  BY <1>13 DEF SignIn, TypeOK, ChecksHold, LostDomainEndsSessions, EndedUserHasNoSession,
         firmVars
<1>14. ASSUME NEW p \in Posts, FindConsumed(p)
       PROVE  (LostDomainEndsSessions /\ EndedUserHasNoSession)'
  BY <1>14 DEF FindConsumed, LostDomainEndsSessions, EndedUserHasNoSession, firmVars, userVars
<1>15. ASSUME NEW p \in Posts, RecordRefusal(p)
       PROVE  (LostDomainEndsSessions /\ EndedUserHasNoSession)'
  BY <1>15 DEF RecordRefusal, LostDomainEndsSessions, EndedUserHasNoSession, firmVars, userVars
<1>16. ASSUME NEW p \in Posts, FailPost(p)
       PROVE  (LostDomainEndsSessions /\ EndedUserHasNoSession)'
  BY <1>16 DEF FailPost, LostDomainEndsSessions, EndedUserHasNoSession, firmVars, userVars
<1>17. ASSUME SwitchLinks PROVE (LostDomainEndsSessions /\ EndedUserHasNoSession)'
  BY <1>17 DEF SwitchLinks, LostDomainEndsSessions, EndedUserHasNoSession, userVars
<1>18. ASSUME SetAdmission PROVE (LostDomainEndsSessions /\ EndedUserHasNoSession)'
  BY <1>18 DEF SetAdmission, LostDomainEndsSessions, EndedUserHasNoSession, userVars
<1>19. ASSUME DisableDomain PROVE (LostDomainEndsSessions /\ EndedUserHasNoSession)'
  BY <1>19 DEF DisableDomain, LostDomainEndsSessions, EndedUserHasNoSession
<1>20. ASSUME EnableDomain PROVE (LostDomainEndsSessions /\ EndedUserHasNoSession)'
  BY <1>20 DEF EnableDomain, LostDomainEndsSessions, EndedUserHasNoSession
<1>21. ASSUME NEW u \in Users, ListUser(u)
       PROVE  (LostDomainEndsSessions /\ EndedUserHasNoSession)'
  BY <1>21 DEF ListUser, LostDomainEndsSessions, EndedUserHasNoSession, firmVars
<1>22. ASSUME NEW u \in Users, RemoveMember(u)
       PROVE  (LostDomainEndsSessions /\ EndedUserHasNoSession)'
  BY <1>22 DEF RemoveMember, LostDomainEndsSessions, EndedUserHasNoSession, firmVars
<1>23. ASSUME NEW u \in Users, ReinstateMember(u)
       PROVE  (LostDomainEndsSessions /\ EndedUserHasNoSession)'
  BY <1>23 DEF ReinstateMember, LostDomainEndsSessions, EndedUserHasNoSession, firmVars
<1>24. ASSUME NEW u \in Users, DisableUser(u)
       PROVE  (LostDomainEndsSessions /\ EndedUserHasNoSession)'
  BY <1>24 DEF DisableUser, LostDomainEndsSessions, EndedUserHasNoSession, firmVars
<1>25. ASSUME NEW u \in Users, EnableUser(u)
       PROVE  (LostDomainEndsSessions /\ EndedUserHasNoSession)'
  BY <1>25 DEF EnableUser, LostDomainEndsSessions, EndedUserHasNoSession, firmVars
<1>26. ASSUME NEW u \in Users, ReleaseUser(u)
       PROVE  (LostDomainEndsSessions /\ EndedUserHasNoSession)'
  BY <1>26 DEF ReleaseUser, LostDomainEndsSessions, EndedUserHasNoSession, firmVars
<1>27. CASE UNCHANGED vars
  BY <1>27 DEF vars, LostDomainEndsSessions, EndedUserHasNoSession, firmVars, userVars
<1> QED
  BY <1>1, <1>2, <1>3, <1>4, <1>5, <1>6, <1>7, <1>8, <1>9, <1>10, <1>11, <1>12, <1>13, <1>14,
     <1>15, <1>16, <1>17, <1>18, <1>19, <1>20, <1>21, <1>22, <1>23, <1>24, <1>25, <1>26, <1>27
     DEF Next, JobStep, PostStep, CommandStep


\* What the limit counts is finite.
LEMMA CountedIsFinite ==
  ASSUME TypeOK
  PROVE  IsFiniteSet(Counted) /\ Cardinality(Counted) \in Nat
<1>1. Counted \in SUBSET Requests
  BY DEF Counted, TypeOK
<1> QED
  BY <1>1, MagicLinkAssumption, FS_Subset, FS_CardinalityType

\* A step that counts nothing more, and lets no job count, keeps the limit.
LEMMA CountsKept ==
  ASSUME TypeOK, CountsHold, Counted' \subseteq Counted,
         \A r \in Requests : job'[r] = "counted" => job[r] = "counted"
  PROVE  CountsHold'
<1>1. IsFiniteSet(Counted) /\ Cardinality(Counted) \in Nat
  BY CountedIsFinite
<1>2. Counted' \in SUBSET Counted
  OBVIOUS
<1>3. IsFiniteSet(Counted') /\ Cardinality(Counted') <= Cardinality(Counted)
  BY <1>1, <1>2, FS_Subset
<1>4. Cardinality(Counted') \in Nat
  BY <1>3, FS_CardinalityType
<1>5. Limit \in Nat
  BY MagicLinkAssumption
<1>6. Cardinality(Counted) <= Limit
  BY DEF CountsHold, LimitHolds
<1>7. LimitHolds'
  BY <1>1, <1>3, <1>4, <1>5, <1>6 DEF LimitHolds
<1>8. ASSUME NEW r \in Requests, job'[r] = "counted" PROVE Cardinality(Counted') < Limit
  <2>1. Cardinality(Counted) < Limit
    BY <1>8 DEF CountsHold
  <2> QED
    BY <2>1, <1>1, <1>3, <1>4, <1>5
<1> QED
  BY <1>7, <1>8 DEF CountsHold

\* The job that counted last is the one that adds a request, and it found room.
LEMMA CountsStep == TypeOK /\ AddressIsHeldOnce /\ CountsHold /\ [Next]_vars => CountsHold'
<1> SUFFICES ASSUME TypeOK, AddressIsHeldOnce, CountsHold, [Next]_vars PROVE CountsHold'
  OBVIOUS
<1>1. ASSUME NEW r \in Requests, Count(r) PROVE CountsHold'
  <2>1. Counted' = Counted
    BY <1>1 DEF Count, Counted, rowVars
  <2>2. \A q \in Requests : job'[q] = "counted" => job[q] = "counted" \/ Cardinality(Counted) <
     Limit
    BY <1>1 DEF Count, TypeOK
  <2> QED
    BY <2>1, <2>2 DEF CountsHold, LimitHolds
<1>2. ASSUME NEW r \in Requests, Reserve(r) PROVE CountsHold'
  <2>1. IsFiniteSet(Counted) /\ Cardinality(Counted) \in Nat /\ Cardinality(Counted) < Limit
    BY <1>2, CountedIsFinite DEF Reserve, CountsHold
  <2>2. Counted' \in SUBSET (Counted \cup {r})
    BY <1>2 DEF Reserve, Counted, TypeOK
  <2>3. /\ IsFiniteSet(Counted \cup {r})
        /\ Cardinality(Counted \cup {r}) \in {Cardinality(Counted), Cardinality(Counted) + 1}
    BY <2>1, FS_AddElement
  <2>4. IsFiniteSet(Counted') /\ Cardinality(Counted') <= Cardinality(Counted \cup {r})
    BY <2>2, <2>3, FS_Subset
  <2>5. Cardinality(Counted') \in Nat
    BY <2>4, FS_CardinalityType
  <2>6. LimitHolds'
    BY <2>1, <2>3, <2>4, <2>5, MagicLinkAssumption DEF LimitHolds
  <2>7. \A q \in Requests : job'[q] # "counted"
    BY <1>2 DEF Reserve, AddressIsHeldOnce, TypeOK
  <2> QED
    BY <2>6, <2>7 DEF CountsHold
<1>3. ASSUME NEW r \in Requests, Admit(r) \/ SendFails(r) \/ Stop(r) \/ Expire(r) \/
     LeaveWindow(r)
      PROVE  CountsHold'
  <2>1. Counted' \subseteq Counted
    BY <1>3 DEF Admit, SendFails, Stop, Expire, LeaveWindow, Counted, TypeOK, rowVars
  <2>2. \A q \in Requests : job'[q] = "counted" => job[q] = "counted"
    BY <1>3 DEF Admit, SendFails, Stop, Expire, LeaveWindow, TypeOK
  <2> QED
    BY <2>1, <2>2, CountsKept
<1>4. ASSUME NEW p \in Posts, PostStep(p) PROVE CountsHold'
  <2>1. recent' = recent /\ sent' = sent /\ job' = job
    BY <1>4 DEF PostStep, PostLink, TryCode, LockAddress, ShareFirm, Check, SignIn,
           FindConsumed,
                RecordRefusal, FailPost, rowVars
  <2>2. Counted' \subseteq Counted
    BY <2>1 DEF Counted
  <2> QED
    BY <2>1, <2>2, CountsKept
<1>5. CASE CommandStep
  <2>1. recent' = recent /\ job' = job
    BY <1>5 DEF CommandStep, Command, SwitchLinks, SetAdmission, DisableDomain, EnableDomain,
           ListUser,
                RemoveMember, ReinstateMember, DisableUser, EnableUser, ReleaseUser
  <2>2. \A r \in Requests : sent'[r] = "sent" => sent[r] = "sent"
    BY <1>5 DEF CommandStep, SwitchLinks, SetAdmission, DisableDomain, EnableDomain, ListUser,
                RemoveMember, ReinstateMember, DisableUser, EnableUser, ReleaseUser, TypeOK
  <2>3. Counted' \subseteq Counted
    BY <2>1, <2>2 DEF Counted, TypeOK
  <2> QED
    BY <2>1, <2>3, CountsKept
<1>6. CASE UNCHANGED vars
  <2>1. Counted' \subseteq Counted /\ job' = job
    BY <1>6 DEF vars, rowVars, Counted
  <2> QED
    BY <2>1, CountsKept
<1> QED
  BY <1>1, <1>2, <1>3, <1>4, <1>5, <1>6 DEF Next, JobStep

\* It all holds when nothing has been asked yet.
LEMMA InitHolds == Init => Inv
<1> SUFFICES ASSUME Init PROVE Inv
  OBVIOUS
<1> USE MagicLinkAssumption
<1>1. TypeOK
  BY DEF Init, TypeOK
<1>2. Counted = {}
  BY DEF Init, Counted
<1>3. LimitHolds
  BY <1>2, FS_EmptySet DEF LimitHolds
<1>4. AddressIsHeldOnce /\ CountsHold /\ RowsHold /\ ChecksHold
  BY <1>3 DEF Init, AddressIsHeldOnce, Addressed, CountsHold, RowsHold, ChecksHold
<1> QED
  BY <1>1, <1>4 DEF Init, Inv, LostDomainEndsSessions, EndedUserHasNoSession

\* The inductive invariant.
LEMMA Invariance == Spec => []Inv
<1>1. Inv /\ [Next]_vars => Inv'
  BY TypeStep, AddressStep, CountsStep, RowsStep, ChecksStep, SessionsStep DEF Inv
<1> QED
  BY <1>1, InitHolds, PTL DEF Spec

\* An address never has more requests in a window than the limit allows, for any
\* number of jobs (lockMagicLinkAddress).
THEOREM LimitsHold == Spec => []LimitHolds
<1>1. Inv => LimitHolds
  BY DEF Inv, CountsHold
<1> QED
  BY <1>1, Invariance, PTL

\* A request makes one session at most, for any number of posts of its link and
\* its code.
THEOREM OneSessionEach == Spec => []OneSessionPerRequest
<1>1. Inv => OneSessionPerRequest
  BY DEF Inv, RowsHold, OneSessionPerRequest
<1> QED
  BY <1>1, Invariance, PTL

\* No session outlives the domain it rests on (endMagicLinkUseOfDomain).
THEOREM LostDomainsEndSessions == Spec => []LostDomainEndsSessions
<1>1. Inv => LostDomainEndsSessions
  BY DEF Inv
<1> QED
  BY <1>1, Invariance, PTL

\* No session is a user's who has been disabled or erased.
THEOREM EndedUsersHaveNoSession == Spec => []EndedUserHasNoSession
<1>1. Inv => EndedUserHasNoSession
  BY DEF Inv
<1> QED
  BY <1>1, Invariance, PTL

\* A request makes a session only in SignIn, of a post that has checked it.
LEMMA WhoSignsIn ==
  ASSUME Inv, [Next]_vars, NEW r \in Requests, SignsIn(r)
  PROVE  \E p \in Posts : SignIn(p) /\ about[p] = r
<1> USE MagicLinkAssumption
<1>1. ASSUME NEW p \in Posts, SignIn(p) PROVE about[p] = r
  BY <1>1 DEF SignIn, SignsIn
<1>2. ASSUME NEW p \in Posts, PostStep(p), ~ SignIn(p) PROVE FALSE
  BY <1>2 DEF PostStep, PostLink, TryCode, LockAddress, ShareFirm, Check, FindConsumed,
              RecordRefusal, FailPost, SignsIn
<1>3. ASSUME NEW q \in Requests, JobStep(q) \/ Expire(q) \/ LeaveWindow(q) PROVE FALSE
  BY <1>3 DEF JobStep, Admit, Count, Reserve, SendFails, Stop, Expire, LeaveWindow, SignsIn
<1>4. CASE CommandStep
  BY <1>4 DEF CommandStep, Command, SwitchLinks, SetAdmission, DisableDomain, EnableDomain,
         ListUser,
              RemoveMember, ReinstateMember, DisableUser, EnableUser, ReleaseUser, SignsIn
<1>5. CASE UNCHANGED vars
  BY <1>5 DEF vars, SignsIn
<1> QED
  BY <1>1, <1>2, <1>3, <1>4, <1>5 DEF Next, PostStep

\* Whoever a request signs in is admitted at that moment, under the revision its
\* link was issued under, and by no request whose codes have run out.
LEMMA SignInStep ==
  ASSUME Inv, [Next]_vars, NEW r \in Requests, SignsIn(r)
  PROVE  Admitted /\ issued[r] = revision /\ r \notin guessed
<1> USE MagicLinkAssumption
<1>1. PICK p \in Posts : SignIn(p) /\ about[p] = r
  BY WhoSignsIn
<1>2. at[p] = "checked" /\ (seen[p] = Nobody => holder = Nobody)
  BY <1>1 DEF SignIn
<1>3. issued[r] = revision /\ r \notin guessed /\ links = "on" /\ domain = "active"
  BY <1>1, <1>2 DEF Inv, ChecksHold
<1>4. IF seen[p] = Nobody THEN admits = "anyone"
      ELSE /\ holder = seen[p] /\ account[seen[p]] = "active"
           /\ \/ member[seen[p]] = "active"
              \/ member[seen[p]] = "none" /\ admits = "anyone"
  BY <1>2 DEF Inv, ChecksHold
<1>5. Admitted
  BY <1>2, <1>3, <1>4 DEF Admitted
<1> QED
  BY <1>3, <1>5

\* Whoever a request signs in is admitted when the session is made, whatever
\* changed since the mail was sent or the row was checked.
THEOREM SignsInAdmittedPeople == Spec => SignsInTheAdmitted
<1>1. Inv /\ [Next]_vars => [\A r \in Requests : SignsIn(r) => Admitted]_vars
  BY SignInStep
<1> QED
  BY <1>1, Invariance, PTL DEF Spec, SignsInTheAdmitted

\* A link of an earlier revision of its firm's setting signs nobody in.
THEOREM LinksOfEarlierRevisionsAreDead == Spec => OldLinksStayDead
<1>1. Inv /\ [Next]_vars => [\A r \in Requests : SignsIn(r) => issued[r] = revision]_vars
  BY SignInStep
<1> QED
  BY <1>1, Invariance, PTL DEF Spec, OldLinksStayDead

\* The last wrong code ends a request for its link as well.
THEOREM WrongCodesEndLinks == Spec => WrongCodesEndTheLink
<1>1. Inv /\ [Next]_vars => [\A r \in Requests : SignsIn(r) => r \notin guessed]_vars
  BY SignInStep
<1> QED
  BY <1>1, Invariance, PTL DEF Spec, WrongCodesEndTheLink

\* No session outlives its domain or its user.
THEOREM SessionsRest == Spec => []SessionsRestOnTheLiving
<1>1. LostDomainEndsSessions /\ EndedUserHasNoSession => SessionsRestOnTheLiving
  BY DEF SessionsRestOnTheLiving
<1> QED
  BY <1>1, LostDomainsEndSessions, EndedUsersHaveNoSession, PTL

\* No link that is over signs anybody in.
THEOREM DeadLinks == Spec => DeadLinksStayDead
  BY LinksOfEarlierRevisionsAreDead, WrongCodesEndLinks DEF DeadLinksStayDead

(***************************************************************************)
(* What a member may do                                                    *)
(***************************************************************************)
(***************************************************************************)
(* The decisions                                                           *)
(***************************************************************************)
LEMMA AssignedReaches ==
  ASSUME NEW p, NEW t, NEW s
  PROVE  s \in Assigned(p, t) <=> Reaches(p, t, s)
BY Zenon DEF Assigned, Reaches, matchingEntitlements

LEMMA CapabilityAdmits ==
  ASSUME NEW p, NEW t, NEW kind, NEW s
  PROVE  s \in Capability(p, t, kind) <=> s \in p.capability[t][kind] /\ <<t, kind>> \notin p.off
BY Zenon DEF Capability

LEMMA KindsAre == "authorization_code" \in Kinds /\ "refresh_token" \in Kinds
BY DEF Kinds

LEMMA TargetsAre == "client" \in Targets /\ "client_resource" \in Targets
BY DEF Targets

\* What is left of a request is part of it.
LEMMA ScopesOfRequest ==
  ASSUME NEW asked, NEW ceilings, NEW s
  PROVE  /\ s \in grantScopes(asked, ceilings) => s \in asked /\ s \in Within(ceilings)
         /\ s \in narrowScopes(asked, ceilings) <=> s \in asked /\ s \in Within(ceilings)
BY Zenon DEF grantScopes, narrowScopes

\* The ceilings of a login, and those of a resource, one scope at a time.
LEMMA LoginCeilingsAdmit ==
  ASSUME NEW p, NEW s, loginEligible(p), s \in Scopes
  PROVE  s \in Within(LoginCeilings(p)) <=> Admits(p, "client", s)
<1>1. s \in Within(LoginCeilings(p)) <=>
        /\ s \in p.client /\ s \in Capability(p, "client", "authorization_code")
        /\ s \in Assigned(p, "client")
  BY Zenon DEF Within, LoginCeilings
<1>2. "client" # "client_resource"
  OBVIOUS
<1> QED BY <1>1, <1>2, AssignedReaches, CapabilityAdmits, Zenon DEF Admits, loginEligible

LEMMA ResourceCeilingsAdmit ==
  ASSUME NEW p, NEW s, eligible(p), s \in Scopes
  PROVE  s \in Within(ResourceCeilings(p)) <=>
           Admits(p, "client_resource", s) /\ s \notin IdentityScopes
<1>1. s \in Within(ResourceCeilings(p)) <=>
        /\ s \in p.client /\ s \in p.resource \ IdentityScopes
        /\ s \in Capability(p, "client_resource", "authorization_code")
        /\ s \in Assigned(p, "client_resource")
  BY Zenon DEF Within, ResourceCeilings
<1> QED BY <1>1, AssignedReaches, CapabilityAdmits, Zenon DEF Admits, eligible, loginEligible

\* The scopes shown for a client are those admitted.
LEMMA LoginScopesAdmit ==
  ASSUME NEW p, NEW s, s \in Scopes
  PROVE  s \in LoginScopes(p) <=> Admits(p, "client", s)
<1>1. CASE loginEligible(p)
  BY <1>1, LoginCeilingsAdmit, Zenon DEF LoginScopes
<1>2. CASE ~loginEligible(p)
  BY <1>2, Zenon DEF LoginScopes, Admits, loginEligible
<1> QED BY <1>1, <1>2

\* More ceilings leave less.
LEMMA WithinMore ==
  ASSUME NEW A, NEW B
  PROVE  Within(A \cup B) \subseteq Within(A)
BY Zenon DEF Within

LEMMA LoginDecision ==
  ASSUME NEW p, NEW kind, NEW asked, NEW original, NEW narrow,
         NEW s \in evaluateClientLoginPermission(p, kind, asked, original, narrow)
  PROVE  s \in asked /\ s \in Scopes /\ Admits(p, "client", s)
<1> DEFINE ceilings == LoginCeilings(p) \cup {original} \cup Renewal(p, "client", kind)
<1>1. /\ loginEligible(p)
      /\ s \in narrowScopes(asked, ceilings) \/ s \in grantScopes(asked, ceilings)
  BY Zenon DEF evaluateClientLoginPermission
<1> HIDE DEF ceilings
<1>2. s \in asked /\ s \in Within(ceilings)
  BY <1>1, ScopesOfRequest, Zenon
<1>3. s \in Within(LoginCeilings(p)) /\ s \in Scopes
  BY <1>2, Zenon DEF Within, ceilings
<1> QED BY <1>1, <1>2, <1>3, LoginCeilingsAdmit, Zenon

LEMMA ResourceDecision ==
  ASSUME NEW p, NEW kind, NEW asked, NEW original, NEW narrow,
         NEW s \in evaluateUserResourcePermission(p, kind, asked, original, narrow)
  PROVE  /\ s \in asked /\ s \in Scopes
         /\ IF s \in IdentityScopes THEN Admits(p, "client", s)
            ELSE Admits(p, "client_resource", s) /\ LoginScopes(p) # {}
<1> DEFINE ceilings == ResourceCeilings(p) \cup {original} \cup Renewal(p, "client_resource", kind)
           beyond == asked \ IdentityScopes
<1>1. /\ eligible(p) /\ LoginScopes(p) # {}
      /\ \/ s \in narrowScopes(beyond, ceilings) \/ s \in grantScopes(beyond, ceilings)
         \/ s \in Identity(p, asked)
  BY Zenon DEF evaluateUserResourcePermission
<1> HIDE DEF ceilings, beyond
<1>2. CASE s \in Identity(p, asked)
  <2>1. s \in asked /\ s \in IdentityScopes /\ s \in LoginScopes(p) /\ s \in Scopes
    BY <1>2, ScopesAssumption, Zenon DEF Identity
  <2> QED BY <2>1, LoginScopesAdmit, Zenon
<1>3. CASE s \in narrowScopes(beyond, ceilings) \/ s \in grantScopes(beyond, ceilings)
  <2>1. s \in asked /\ s \notin IdentityScopes /\ s \in Within(ceilings)
    <3>1. s \in beyond /\ s \in Within(ceilings)
      BY <1>3, ScopesOfRequest, Zenon
    <3> QED BY <3>1, Zenon DEF beyond
  <2>2. s \in Within(ResourceCeilings(p)) /\ s \in Scopes
    BY <2>1, Zenon DEF Within, ceilings
  <2> QED BY <1>1, <2>1, <2>2, ResourceCeilingsAdmit, Zenon
<1> QED BY <1>1, <1>2, <1>3, Zenon

\* A decision approves part of the request, and only what the member is entitled to.
LEMMA DecisionIsEntitled ==
  ASSUME NEW p, NEW t \in Targets, NEW kind, NEW asked, NEW original, NEW narrow,
         NEW s \in userResourcePolicy(p, t, kind, asked, original, narrow)
  PROVE  s \in asked /\ s \in Scopes /\ Entitled(p, t, s)
<1>1. CASE t = "client"
  BY <1>1, LoginDecision, Zenon DEF userResourcePolicy, Entitled
<1>2. CASE t # "client"
  <2>1. /\ s \in asked /\ s \in Scopes /\ t = "client_resource"
        /\ IF s \in IdentityScopes THEN Admits(p, "client", s)
           ELSE Admits(p, "client_resource", s) /\ LoginScopes(p) # {}
    BY <1>2, ResourceDecision, Zenon DEF userResourcePolicy, Targets
  <2>2. ASSUME LoginScopes(p) # {} PROVE \E id \in Scopes : Admits(p, "client", id)
    <3>1. PICK id \in LoginScopes(p) : TRUE
      BY <2>2, Zenon
    <3>2. id \in Scopes
      BY <3>1, Zenon DEF LoginScopes, Within
    <3> QED BY <3>1, <3>2, LoginScopesAdmit, Zenon
  <2> QED BY <1>2, <2>1, <2>2, Zenon DEF Entitled
<1> QED BY <1>1, <1>2

\* What is approved is within every ceiling of the decision, asked strictly or not.
LEMMA StrictKeepsAll ==
  ASSUME NEW asked, NEW ceilings, asked # {}, asked \subseteq Within(ceilings)
  PROVE  grantScopes(asked, ceilings) = asked
BY Zenon DEF grantScopes

\* A code that consent narrowed: the strict decision of the exchange approves the same scopes.
LEMMA LoginAgain ==
  ASSUME NEW p, NEW original,
         NEW given, given # {},
         given = evaluateClientLoginPermission(p, "authorization_code", original, original, TRUE)
  PROVE  evaluateClientLoginPermission(p, "authorization_code", given, original, FALSE) = given
<1> DEFINE kind == "authorization_code"
           ceilings == LoginCeilings(p) \cup {original} \cup Renewal(p, "client", kind)
<1> HIDE DEF ceilings
<1>1. /\ loginEligible(p) /\ Renewable(p, "client", kind)
      /\ given = narrowScopes(original, ceilings)
  BY Zenon DEF evaluateClientLoginPermission, ceilings
<1>2. given \subseteq original /\ given \subseteq Within(ceilings)
  BY <1>1, ScopesOfRequest, Zenon
<1>3. grantScopes(given, ceilings) = given
  BY <1>2, StrictKeepsAll, Zenon
<1> QED BY <1>1, <1>2, <1>3, Zenon DEF evaluateClientLoginPermission, ceilings

LEMMA ResourceAgain ==
  ASSUME NEW p, NEW original,
         NEW given, given # {},
         given = evaluateUserResourcePermission(p, "authorization_code", original, original, TRUE)
  PROVE  evaluateUserResourcePermission(p, "authorization_code", given, original, FALSE) = given
<1> DEFINE kind == "authorization_code"
           ceilings == ResourceCeilings(p) \cup {original} \cup Renewal(p, "client_resource", kind)
           scopes == narrowScopes(original \ IdentityScopes, ceilings)
<1> HIDE DEF ceilings, scopes
<1>1. /\ eligible(p) /\ Renewable(p, "client_resource", kind) /\ LoginScopes(p) # {}
      /\ scopes # {} /\ given = scopes \cup Identity(p, original)
  BY Zenon DEF evaluateUserResourcePermission, ceilings, scopes
<1>2. \A s : s \in scopes => s \in original \ IdentityScopes /\ s \in Within(ceilings)
  BY ScopesOfRequest, Zenon DEF scopes
<1>3. given \subseteq original
  BY <1>1, <1>2, Zenon DEF Identity
<1>4. given \ IdentityScopes = scopes
  BY <1>1, <1>2, Zenon DEF Identity
<1>5. given \cap IdentityScopes \subseteq LoginScopes(p)
  BY <1>1, <1>2, Zenon DEF Identity
<1>6. Identity(p, given) = Identity(p, original)
  BY <1>1, <1>2, Zenon DEF Identity
<1>7. grantScopes(given \ IdentityScopes, ceilings) = scopes
  BY <1>1, <1>2, <1>4, StrictKeepsAll, Zenon
<1> QED BY <1>1, <1>3, <1>5, <1>6, <1>7, Zenon DEF evaluateUserResourcePermission, ceilings

LEMMA DecisionAgain ==
  ASSUME NEW p, NEW t, NEW original,
         NEW given, given # {},
         given = userResourcePolicy(p, t, "authorization_code", original, original, TRUE)
  PROVE  userResourcePolicy(p, t, "authorization_code", given, original, FALSE) = given
BY LoginAgain, ResourceAgain, Zenon DEF userResourcePolicy

\* Whoever has less has no more admitted.
LEMMA AdmitsMore ==
  ASSUME NEW p, NEW q, Grows(p, q), NEW t \in Targets, NEW s, Admits(p, t, s)
  PROVE  Admits(q, t, s)
<1>1. /\ s \in q.client /\ s \in q.capability[t]["authorization_code"]
      /\ <<t, "authorization_code">> \notin q.off
  BY KindsAre, Zenon DEF Grows, Admits
<1>2. Reaches(q, t, s)
  BY Zenon DEF Grows, Admits, Reaches
<1>3. LoginFacts \subseteq q.standing
  BY Zenon DEF Grows, Admits
<1>4. t = "client_resource" => s \in q.resource /\ ResourceFacts \subseteq q.standing
  BY Zenon DEF Grows, Admits
<1> QED BY <1>1, <1>2, <1>3, <1>4, Zenon DEF Admits

LEMMA AccessGrows ==
  ASSUME NEW p, NEW q, Grows(p, q), NEW t \in Targets
  PROVE  memberAccess(p, t) \subseteq memberAccess(q, t)
<1>1. LoginScopes(p) \subseteq LoginScopes(q)
  <2>1. ASSUME NEW s \in LoginScopes(p) PROVE s \in LoginScopes(q)
    <3>1. s \in Scopes
      BY <2>1, Zenon DEF LoginScopes, Within
    <3> QED BY <2>1, <3>1, LoginScopesAdmit, AdmitsMore, TargetsAre, Zenon
  <2> QED BY <2>1, Zenon
<1>2. ResourceScopes(p) \subseteq ResourceScopes(q)
  <2>1. ASSUME NEW s \in ResourceScopes(p) PROVE s \in ResourceScopes(q)
    <3>1. eligible(p) /\ LoginScopes(p) # {} /\ s \in Within(ResourceCeilings(p)) /\ s \in Scopes
      BY <2>1, Zenon DEF ResourceScopes, Within
    <3>2. eligible(q)
      BY <3>1, Zenon DEF eligible, loginEligible, Grows
    <3>3. Admits(q, "client_resource", s) /\ s \notin IdentityScopes
      BY <3>1, ResourceCeilingsAdmit, AdmitsMore, TargetsAre, Zenon
    <3>4. s \in Within(ResourceCeilings(q))
      BY <3>1, <3>2, <3>3, ResourceCeilingsAdmit, Zenon
    <3> QED BY <1>1, <3>1, <3>2, <3>4, Zenon DEF ResourceScopes
  <2> QED BY <2>1, Zenon
<1> QED BY <1>1, <1>2, Zenon DEF memberAccess

\* A request asked of a decision as it was authorised meets the ceilings that explain access.
LEMMA RequestCeilings ==
  ASSUME NEW t, NEW A, NEW asked, NEW p, NEW s
  PROVE  s \in asked /\ s \in Within(A \cup {asked} \cup Renewal(p, t, "authorization_code"))
           <=> s \in asked /\ s \in Within(A)
BY Zenon DEF Within, Renewal

LEMMA LoginExplained ==
  ASSUME NEW p, NEW asked
  PROVE  evaluateClientLoginPermission(p, "authorization_code", asked, asked, TRUE)
           = asked \cap LoginScopes(p)
<1> DEFINE kind == "authorization_code"
           ceilings == LoginCeilings(p) \cup {asked} \cup Renewal(p, "client", kind)
<1> HIDE DEF ceilings
<1>1. Renewable(p, "client", kind)
  BY DEF Renewable
<1>2. CASE loginEligible(p)
  <2>1. evaluateClientLoginPermission(p, kind, asked, asked, TRUE) = narrowScopes(asked, ceilings)
    BY <1>1, <1>2, Zenon DEF evaluateClientLoginPermission, ceilings
  <2>2. \A s : s \in narrowScopes(asked, ceilings) <=> s \in asked /\ s \in Within(LoginCeilings(p))
    <3>1. \A s : s \in narrowScopes(asked, ceilings) <=> s \in asked /\ s \in Within(ceilings)
      BY ScopesOfRequest, Zenon
    <3>2. \A s : s \in asked /\ s \in Within(ceilings)
                   <=> s \in asked /\ s \in Within(LoginCeilings(p))
      BY RequestCeilings, Zenon DEF ceilings
    <3> QED BY <3>1, <3>2, Zenon
  <2> QED BY <1>2, <2>1, <2>2, Zenon DEF LoginScopes
<1>3. CASE ~loginEligible(p)
  BY <1>3, Zenon DEF evaluateClientLoginPermission, LoginScopes
<1> QED BY <1>2, <1>3

LEMMA ResourceExplained ==
  ASSUME NEW p, NEW asked
  PROVE  evaluateUserResourcePermission(p, "authorization_code", asked, asked, TRUE)
           \ IdentityScopes = asked \cap ResourceScopes(p)
<1> DEFINE kind == "authorization_code"
           ceilings == ResourceCeilings(p) \cup {asked} \cup Renewal(p, "client_resource", kind)
           scopes == narrowScopes(asked \ IdentityScopes, ceilings)
           given == evaluateUserResourcePermission(p, kind, asked, asked, TRUE)
<1> HIDE DEF ceilings, scopes, given
<1>1. Renewable(p, "client_resource", kind)
  BY DEF Renewable
<1>2. CASE eligible(p) /\ LoginScopes(p) # {}
  <2>1. given = IF scopes = {} THEN {} ELSE scopes \cup Identity(p, asked)
    BY <1>1, <1>2, Zenon DEF evaluateUserResourcePermission, ceilings, scopes, given
  <2>2. \A s : s \in scopes <=> s \in asked \ IdentityScopes /\ s \in Within(ceilings)
    BY ScopesOfRequest, Zenon DEF scopes
  <2>3. \A s : s \in asked /\ s \in Within(ceilings)
                 <=> s \in asked /\ s \in Within(ResourceCeilings(p))
    BY RequestCeilings, Zenon DEF ceilings
  <2>4. \A s \in Within(ResourceCeilings(p)) : s \notin IdentityScopes
    BY <1>2, ResourceCeilingsAdmit, Zenon DEF Within
  <2>5. scopes = asked \cap Within(ResourceCeilings(p))
    BY <2>2, <2>3, <2>4, Zenon
  <2>6. given \ IdentityScopes = scopes
    BY <2>1, <2>2, Zenon DEF Identity
  <2> QED BY <1>2, <2>5, <2>6, Zenon DEF ResourceScopes, given
<1>3. CASE ~(eligible(p) /\ LoginScopes(p) # {})
  BY <1>3, Zenon DEF evaluateUserResourcePermission, ResourceScopes
<1> QED BY <1>2, <1>3

(***************************************************************************)
(* The state                                                               *)
(***************************************************************************)
\* A grant's code, token and access token lie within its request; the token follows the code, and
\* there is no access token without it.
InOrder ==
  /\ code \cup refresh \cup access \subseteq requested
  /\ refresh # {} => code = {}
  /\ access \subseteq refresh

PermissionInv == PermissionTypeOK /\ InOrder /\ IssuedIsEntitled /\ CodesAreExchangeable

LEMMA Nested ==
  ASSUME NEW A, NEW B, NEW C, NEW f \in [A -> [B -> C]], NEW a \in A, NEW b \in B, NEW c \in C
  PROVE  [f EXCEPT ![a][b] = c] \in [A -> [B -> C]]
OBVIOUS

LEMMA PermissionTypeStep ==
  /\ PermissionInit => PermissionTypeOK
  /\ PermissionTypeOK /\ [PermissionNext]_policyVars => PermissionTypeOK'
<1>1. ASSUME PermissionInit PROVE PermissionTypeOK
  <2>1. PICK assigned :
          policy = [standing |-> Facts, off |-> {}, client |-> Scopes, resource |-> Scopes,
                    capability |-> [t \in Targets |-> [k \in Kinds |-> Kept(t)]],
                    assignment |-> [t \in Targets |-> [q \in Assignees |->
                                      IF q \in assigned THEN Scopes ELSE {}]]]
    BY <1>1, Zenon DEF PermissionInit
  <2>2. \A t \in Targets : Kept(t) \in SUBSET Scopes
    BY ScopesAssumption DEF Kept
  <2>3. policy \in Policies
    BY <2>1, <2>2 DEF Policies
  <2>4. \A t \in Targets, k \in Kinds : policy.capability[t][k] \subseteq Kept(t)
    BY <2>1
  <2>5. 0 \in 0..MaxChanges
    BY ScopesAssumption
  <2> QED BY <1>1, <2>3, <2>4, <2>5 DEF PermissionInit, PermissionTypeOK, Targets
<1>2. ASSUME PermissionTypeOK, [PermissionNext]_policyVars PROVE PermissionTypeOK'
  <2> DEFINE Capable(p) == \A t \in Targets, k \in Kinds : p.capability[t][k] \subseteq Kept(t)
  <2> USE <1>2
  <2>0. ASSUME NEW p \in Policies, Capable(p), ChangePolicy(p) PROVE PermissionTypeOK'
    <3>1. changes + 1 \in 0..MaxChanges
      BY <2>0, ScopesAssumption DEF PermissionTypeOK, ChangePolicy
    <3> QED BY <2>0, <3>1 DEF PermissionTypeOK, ChangePolicy
  <2>1. ASSUME NEW t \in Targets, NEW asked \in SUBSET Scopes, createResourceGrant(t, asked)
        PROVE  PermissionTypeOK'
    BY <2>1 DEF createResourceGrant, PermissionTypeOK
  <2>2. \A t \in Targets : \A kind, asked, original, narrow :
          userResourcePolicy(policy, t, kind, asked, original, narrow) \subseteq asked
    BY DecisionIsEntitled, Zenon
  <2>3. CASE narrowAuthorizationCode
    <3>1. code' \in SUBSET Scopes /\ requested' \in SUBSET Scopes
      BY <2>2, <2>3 DEF narrowAuthorizationCode, PermissionTypeOK
    <3> QED BY <2>3, <3>1 DEF narrowAuthorizationCode, PermissionTypeOK
  <2>4. CASE Exchange
    <3>1. refresh' \in SUBSET Scopes /\ access' \in SUBSET Scopes
      BY <2>2, <2>4 DEF Exchange, PermissionTypeOK
    <3> QED BY <2>4, <3>1 DEF Exchange, PermissionTypeOK
  <2>5. CASE EndGrant
    BY <2>5 DEF EndGrant, PermissionTypeOK
  <2>6. ASSUME NEW asked \in SUBSET Scopes, Renew(asked) PROVE PermissionTypeOK'
    <3>1. refresh' \in SUBSET Scopes /\ access' \in SUBSET Scopes
      BY <2>2, <2>6 DEF Renew, PermissionTypeOK
    <3> QED BY <2>6, <3>1 DEF Renew, PermissionTypeOK
  <2>7. policy \in Policies /\ Capable(policy)
    BY DEF PermissionTypeOK
  <2>8. ASSUME NEW fact \in Facts, setStatus(fact) PROVE PermissionTypeOK'
    <3> DEFINE p == [policy EXCEPT !.standing = Toggle(@, fact)]
    <3>1. p \in Policies /\ Capable(p)
      BY <2>7 DEF Policies, Toggle
    <3> QED BY <2>0, <2>8, <3>1, Zenon DEF setStatus
  <2>13. ASSUME NEW row \in PolicyRows, setRowStatus(row) PROVE PermissionTypeOK'
    <3> DEFINE p == [policy EXCEPT !.off = Toggle(@, row)]
    <3>1. p \in Policies /\ Capable(p)
      BY <2>7 DEF Policies, Toggle
    <3> QED BY <2>0, <2>13, <3>1, Zenon DEF setRowStatus
  <2>9. ASSUME NEW s \in Scopes, setClientScopes(s) \/ setResourceScopes(s) PROVE PermissionTypeOK'
    <3> DEFINE p == [policy EXCEPT !.client = Toggle(@, s)]
               q == [policy EXCEPT !.resource = Toggle(@, s)]
    <3>1. p \in Policies /\ Capable(p) /\ q \in Policies /\ Capable(q)
      BY <2>7 DEF Policies, Toggle
    <3> QED BY <2>0, <2>9, <3>1, Zenon DEF setClientScopes, setResourceScopes
  <2>10. ASSUME NEW s \in Scopes, NEW t \in Targets, NEW k \in Kinds, setCapabilityScopes(t, k, s)
         PROVE  PermissionTypeOK'
    <3> DEFINE scopes == Toggle(policy.capability[t][k], s)
               p == [policy EXCEPT !.capability[t][k] = scopes]
    <3>1. scopes \subseteq Kept(t)
      BY <2>10, Zenon DEF setCapabilityScopes, validateScopes
    <3>2. p \in Policies
      <4>1. /\ policy.capability \in [Targets -> [Kinds -> SUBSET Scopes]]
            /\ scopes \in SUBSET Scopes
        BY <2>7 DEF Policies, Toggle
      <4>2. [policy.capability EXCEPT ![t][k] = scopes]
              \in [Targets -> [Kinds -> SUBSET Scopes]]
        BY <4>1, Nested, Zenon
      <4>3. p = [policy EXCEPT !.capability =
                   [policy.capability EXCEPT ![t][k] = scopes]]
        BY <2>7 DEF Policies
      <4> HIDE DEF p
      <4> QED BY <2>7, <4>2, <4>3 DEF Policies
    <3>3. \A u \in Targets, l \in Kinds :
            p.capability[u][l] = IF u = t /\ l = k THEN scopes
                                 ELSE policy.capability[u][l]
      BY <2>7 DEF Policies
    <3>4. Capable(p)
      BY <2>7, <3>1, <3>3
    <3> QED BY <2>0, <2>10, <3>2, <3>4, Zenon DEF setCapabilityScopes
  <2>11. ASSUME NEW s \in Scopes, NEW t \in Targets, NEW q \in Assignees,
                setEntitlementScopes(t, q, s)
         PROVE  PermissionTypeOK'
    <3> DEFINE p == [policy EXCEPT !.assignment[t][q] = Toggle(@, s)]
    <3>1. p \in Policies
      <4>1. /\ policy.assignment \in [Targets -> [Assignees -> SUBSET Scopes]]
            /\ Toggle(policy.assignment[t][q], s) \in SUBSET Scopes
        BY <2>7 DEF Policies, Toggle
      <4>2. [policy.assignment EXCEPT ![t][q] = Toggle(policy.assignment[t][q], s)]
              \in [Targets -> [Assignees -> SUBSET Scopes]]
        BY <4>1, Nested, Zenon
      <4>3. p = [policy EXCEPT !.assignment =
                   [policy.assignment EXCEPT ![t][q] = Toggle(policy.assignment[t][q], s)]]
        BY <2>7 DEF Policies
      <4> HIDE DEF p
      <4> QED BY <2>7, <4>2, <4>3 DEF Policies
    <3>2. p.capability = policy.capability
      BY <2>7 DEF Policies
    <3>3. Capable(p)
      BY <2>7, <3>2, Zenon
    <3> QED BY <2>0, <2>11, <3>1, <3>3, Zenon DEF setEntitlementScopes
  <2>12. CASE UNCHANGED policyVars
    BY <2>12 DEF policyVars, PermissionTypeOK
  <2> QED
    BY <2>1, <2>3, <2>4, <2>5, <2>6, <2>8, <2>13, <2>9, <2>10, <2>11, <2>12, Zenon
    DEF PermissionNext
<1> QED BY <1>1, <1>2

\* What a step may do to a grant, whatever the policy says.
LEMMA GrantSteps ==
  ASSUME PermissionTypeOK, InOrder, PermissionNext
  PROVE  \/ /\ UNCHANGED <<target, requested, code, refresh, access>> /\ ~settled'
         \/ /\ requested = {} /\ UNCHANGED <<policy, code, refresh, access, settled>>
         \/ /\ code = {} /\ refresh = {} /\ UNCHANGED <<policy, target, refresh, access>>
            /\ code' = userResourcePolicy(policy, target, "authorization_code",
                                          requested, requested, TRUE)
            /\ requested' = IF code' = {} THEN {} ELSE requested
         \/ /\ \E scopes : /\ Exchange /\ scopes # {} /\ refresh' = scopes /\ access' = scopes
                           /\ scopes = userResourcePolicy(policy, target, "authorization_code",
                                                          code, requested, FALSE)
         \/ \E asked, scopes : /\ Renew(asked) /\ scopes # {}
                               /\ asked \subseteq refresh /\ refresh # {}
                               /\ access' = scopes /\ refresh' \in {scopes, refresh}
                               /\ scopes = userResourcePolicy(policy, target, "refresh_token",
                                                              asked, requested, FALSE)
         \/ EndGrant
<1>1. ASSUME NEW p, ChangePolicy(p)
      PROVE  UNCHANGED <<target, requested, code, refresh, access>> /\ ~settled'
  BY <1>1, Zenon DEF ChangePolicy
<1>2. ASSUME NEW t, NEW asked, createResourceGrant(t, asked)
      PROVE  requested = {} /\ UNCHANGED <<policy, code, refresh, access, settled>>
  BY <1>2, Zenon DEF createResourceGrant
<1>3. ASSUME narrowAuthorizationCode
      PROVE  /\ code = {} /\ refresh = {} /\ UNCHANGED <<policy, target, refresh, access>>
             /\ code' = userResourcePolicy(policy, target, "authorization_code",
                                           requested, requested, TRUE)
             /\ requested' = IF code' = {} THEN {} ELSE requested
  BY <1>3, Zenon DEF narrowAuthorizationCode
<1>4. ASSUME Exchange
      PROVE  \E scopes : /\ Exchange /\ scopes # {} /\ refresh' = scopes /\ access' = scopes
                         /\ scopes = userResourcePolicy(policy, target, "authorization_code",
                                                        code, requested, FALSE)
  BY <1>4, Zenon DEF Exchange
<1>5. ASSUME NEW asked, Renew(asked)
      PROVE  \E scopes : /\ Renew(asked) /\ scopes # {}
                         /\ asked \subseteq refresh /\ refresh # {}
                         /\ access' = scopes /\ refresh' \in {scopes, refresh}
                         /\ scopes = userResourcePolicy(policy, target, "refresh_token",
                                                        asked, requested, FALSE)
  BY <1>5, Zenon DEF Renew
<1> QED BY <1>1, <1>2, <1>3, <1>4, <1>5, Zenon
        DEF PermissionNext, setStatus, setRowStatus, setClientScopes, setResourceScopes, setCapabilityScopes,
            setEntitlementScopes

Narrows == /\ code' \cup refresh' \cup access' \subseteq requested'
           /\ refresh # {} => refresh' \cup access' \subseteq refresh

LEMMA PermissionStepInv ==
  ASSUME PermissionInv, PermissionNext, PermissionTypeOK'
  PROVE  PermissionInv' /\ Narrows
<1> USE DEF PermissionInv
<1>0. target \in Targets
  BY DEF PermissionTypeOK
<1>1. CASE UNCHANGED <<target, requested, code, refresh, access>> /\ ~settled'
  <2>1. InOrder' /\ Narrows
    BY <1>1, Zenon DEF InOrder, Narrows
  <2>2. IssuedIsEntitled' /\ CodesAreExchangeable'
    BY <1>1, Zenon DEF IssuedIsEntitled, CodesAreExchangeable
  <2> QED BY <2>1, <2>2, Zenon
<1>2. CASE requested = {} /\ UNCHANGED <<policy, code, refresh, access, settled>>
  <2>1. code = {} /\ refresh = {} /\ access = {}
    BY <1>2, Zenon DEF InOrder
  <2>2. code' = {} /\ refresh' = {} /\ access' = {}
    BY <1>2, <2>1, Zenon
  <2>3. InOrder' /\ Narrows
    BY <2>1, <2>2, Zenon DEF InOrder, Narrows
  <2>4. IssuedIsEntitled' /\ CodesAreExchangeable'
    BY <2>2, Zenon DEF IssuedIsEntitled, CodesAreExchangeable
  <2> QED BY <2>3, <2>4, Zenon
<1>3. CASE /\ code = {} /\ refresh = {} /\ UNCHANGED <<policy, target, refresh, access>>
           /\ code' = userResourcePolicy(policy, target, "authorization_code",
                                         requested, requested, TRUE)
           /\ requested' = IF code' = {} THEN {} ELSE requested
  <2>1. access' = {} /\ refresh' = {} /\ refresh = {}
    BY <1>3, Zenon DEF InOrder
  <2>2. \A s \in code' : s \in requested /\ Entitled(policy', target', s)
    BY <1>0, <1>3, DecisionIsEntitled, Zenon
  <2>3. InOrder' /\ Narrows
    BY <1>3, <2>1, <2>2, Zenon DEF InOrder, Narrows
  <2>4. IssuedIsEntitled'
    BY <2>1, <2>2, Zenon DEF IssuedIsEntitled
  <2>5. ASSUME code' # {}
        PROVE  userResourcePolicy(policy', target', "authorization_code", code', requested', FALSE)
                 = code'
    BY <1>3, <2>5, DecisionAgain, Zenon
  <2>6. CodesAreExchangeable'
    BY <2>5, Zenon DEF CodesAreExchangeable
  <2> QED BY <2>3, <2>4, <2>6, Zenon
<1>4. ASSUME NEW scopes, Exchange, scopes # {}, refresh' = scopes, access' = scopes,
             scopes = userResourcePolicy(policy, target, "authorization_code",
                                         code, requested, FALSE)
      PROVE  PermissionInv' /\ Narrows
  <2>1. \A s \in scopes : s \in code /\ Entitled(policy, target, s)
    BY <1>0, <1>4, DecisionIsEntitled, Zenon
  <2>2. code # {} /\ code' = {} /\ UNCHANGED <<policy, target, requested>>
    BY <1>4, Zenon DEF Exchange
  <2>3. refresh = {}
    BY <2>2, Zenon DEF InOrder
  <2>4. InOrder' /\ Narrows
    BY <1>4, <2>1, <2>2, <2>3, Zenon DEF InOrder, Narrows
  <2>5. IssuedIsEntitled' /\ CodesAreExchangeable'
    BY <1>4, <2>1, <2>2, Zenon DEF IssuedIsEntitled, CodesAreExchangeable
  <2> QED BY <2>4, <2>5, Zenon
<1>5. ASSUME NEW asked, NEW scopes, Renew(asked), scopes # {}, asked \subseteq refresh,
             refresh # {},
             access' = scopes, refresh' \in {scopes, refresh},
             scopes = userResourcePolicy(policy, target, "refresh_token", asked, requested, FALSE)
      PROVE  PermissionInv' /\ Narrows
  <2>1. \A s \in scopes : s \in refresh /\ Entitled(policy, target, s)
    BY <1>0, <1>5, DecisionIsEntitled, Zenon
  <2>2. code' = code /\ code = {} /\ UNCHANGED <<policy, target, requested>>
    BY <1>5, Zenon DEF Renew, InOrder
  <2>3. refresh' # {} /\ refresh' \subseteq refresh
    BY <1>5, <2>1, Zenon
  <2>4. InOrder' /\ Narrows
    BY <1>5, <2>1, <2>2, <2>3, Zenon DEF InOrder, Narrows
  <2>5. IssuedIsEntitled' /\ CodesAreExchangeable'
    BY <1>5, <2>1, <2>2, Zenon DEF IssuedIsEntitled, CodesAreExchangeable
  <2> QED BY <2>4, <2>5, Zenon
<1>6. CASE EndGrant
  <2>1. code' = {} /\ refresh' = {} /\ access' = {} /\ ~settled'
    BY <1>6, Zenon DEF EndGrant
  <2> QED BY <2>1, Zenon DEF InOrder, Narrows, IssuedIsEntitled, CodesAreExchangeable
<1> QED BY <1>1, <1>2, <1>3, <1>4, <1>5, <1>6, GrantSteps, Zenon

LEMMA PermissionInitInv == PermissionInit => PermissionInv
BY PermissionTypeStep, Zenon
   DEF PermissionInit, PermissionInv, InOrder, IssuedIsEntitled, CodesAreExchangeable

LEMMA PermissionNextInv == PermissionInv /\ [PermissionNext]_policyVars => PermissionInv'
<1> SUFFICES ASSUME PermissionInv, [PermissionNext]_policyVars PROVE PermissionInv'
  OBVIOUS
<1>1. PermissionTypeOK'
  BY PermissionTypeStep, Zenon DEF PermissionInv
<1>2. CASE PermissionNext
  BY <1>1, <1>2, PermissionStepInv, Zenon
<1>3. CASE UNCHANGED policyVars
  BY <1>1, <1>3, Zenon
     DEF policyVars, PermissionInv, InOrder, IssuedIsEntitled, CodesAreExchangeable
<1> QED BY <1>2, <1>3

LEMMA PermissionInvariance == PermissionSpec => []PermissionInv
BY PermissionInitInv, PermissionNextInv, PTL DEF PermissionSpec

\* The policy, a grant and its tokens keep their types: a change of the policy
\* (services/capabilities.ts) never makes a capability name a scope its target may not have.
THEOREM PermissionTypeCorrect == PermissionSpec => []PermissionTypeOK
<1>1. PermissionInv => PermissionTypeOK
  BY DEF PermissionInv
<1> QED BY <1>1, PermissionInvariance, PTL

\* Whatever is issued, at consent, exchange or renewal (auth/member-permission.ts), is the member's
\* at that moment, scope by scope.
THEOREM Entitlement == PermissionSpec => []IssuedIsEntitled
<1>1. PermissionInv => IssuedIsEntitled
  BY DEF PermissionInv
<1> QED BY <1>1, PermissionInvariance, PTL

\* The strict decision at the exchange (auth/user-token-boundary.ts) approves what the narrowing one
\* at consent (auth/narrow-authorization-code.ts) left, as long as the policy stays.
THEOREM Exchangeable == PermissionSpec => []CodesAreExchangeable
<1>1. PermissionInv => CodesAreExchangeable
  BY DEF PermissionInv
<1> QED BY <1>1, PermissionInvariance, PTL

\* What is shown of a member's access (db/queries/access.ts) is what a request is narrowed to.
THEOREM Explained == PermissionSpec => []ExplanationIsExact
<1>1. ExplanationIsExact
  BY LoginExplained, ResourceExplained, Zenon
     DEF ExplanationIsExact, userResourcePolicy, memberAccess, Targets
<1> QED BY <1>1, PTL

\* Codes and tokens stay within the request of their grant and within each other, over any number
\* of renewals (auth/user-token-boundary.ts) and changes of the policy.
THEOREM Narrowing == PermissionSpec => RenewalNeverWidens
<1>1. PermissionInv /\ [PermissionNext]_policyVars => [Narrows]_policyVars
  BY PermissionStepInv, PermissionNextInv, Zenon DEF PermissionInv
<1>2. [Narrows]_policyVars
        => [/\ code' \cup refresh' \cup access' \subseteq requested'
            /\ refresh # {} => refresh' \cup access' \subseteq refresh]_policyVars
  BY Zenon DEF Narrows
<1> QED BY <1>1, <1>2, PermissionInvariance, PTL DEF PermissionSpec, RenewalNeverWidens

\* Giving more scopes, assignments or capabilities never costs a member access it had
\* (auth/member-permission.ts).
THEOREM Monotone == PermissionSpec => MoreTakesNothingAway
<1>1. [Grows(policy, policy') =>
         \A t \in Targets : memberAccess(policy, t) \subseteq memberAccess(policy', t)]_policyVars
  BY AccessGrows, Zenon
<1> QED BY <1>1, PTL DEF MoreTakesNothingAway

=============================================================================
