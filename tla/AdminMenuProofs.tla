---------------------------- MODULE AdminMenuProofs ----------------------------
(***************************************************************************)
(* AdminMenu and TgUsers keep their types; actors belong to the user they  *)
(* were created for and are no more than his chats; the admin acts on whom *)
(* he named, or on the first user in the table where he wrote a zero, and  *)
(* sees the lists whole: for every set of users, sessions and usernames    *)
(* and every size of a page.                                               *)
(***************************************************************************)
EXTENDS AdminMenu, FiniteSetTheorems, WellFoundedInduction, TLAPS

USE DEF telegram, table, message, usersVars, acting, listing, vars

\* What Min of FiniteSetsExt is for numbers.
LEMMA MinIsLeast ==
  ASSUME NEW T \in SUBSET Nat, T # {}
  PROVE  Min(T) \in T /\ \A y \in T : Min(T) <= y
<1> DEFINE C == {1 .. x : x \in T}
<1>1. C \subseteq FiniteSubsetsOf(Nat)
  <2> SUFFICES ASSUME NEW x \in T PROVE 1 .. x \subseteq Nat /\ IsFiniteSet(1 .. x)
    BY DEF FiniteSubsetsOf
  <2> QED
    BY FS_Interval
<1>2. C # {}
  OBVIOUS
<1>3. PICK X \in C : \A Y \in C : <<Y, X>> \notin StrictSubsetOrdering(Nat)
  <2> HIDE DEF C
  <2> QED
    BY <1>1, <1>2, WFMin, FS_StrictSubsetOrderingWellFounded
<1>4. PICK x \in T : X = 1 .. x
  OBVIOUS
<1>5. ASSUME NEW y \in T PROVE x <= y
  <2> SUFFICES ASSUME y < x PROVE FALSE
    OBVIOUS
  <2>1. x \in 1 .. x /\ x \notin 1 .. y /\ 1 .. y \subseteq 1 .. x /\ 1 .. x \subseteq Nat
    OBVIOUS
  <2>2. 1 .. y \in C /\ <<1 .. y, 1 .. x>> \in StrictSubsetOrdering(Nat)
    BY <2>1 DEF StrictSubsetOrdering
  <2> HIDE DEF C
  <2> QED
    BY <1>3, <1>4, <2>2
<1> QED
  BY <1>5 DEF Min

\* And for two of them.
LEMMA MinOfTwo ==
  ASSUME NEW a \in Nat, NEW b \in Nat
  PROVE  /\ Min({a, b}) \in Nat /\ Min({a, b}) <= a /\ Min({a, b}) <= b
         /\ Min({a, b}) \in {a, b}
BY MinIsLeast

-----------------------------------------------------------------------------
\* The list.

\* A page and the next.
LEMMA Pages ==
  ASSUME NEW n \in Nat, NEW p \in Nat
  PROVE  /\ p * PageSize \in Nat /\ (p + 1) * PageSize \in Nat
         /\ p * PageSize <= (p + 1) * PageSize
         /\ On(n, p) \subseteq 1 .. n
         /\ \A i \in 1 .. n : i <= (p + 1) * PageSize /\ i > p * PageSize => i \in On(n, p)
<1>1. PageSize \in Nat
  BY PageAssumption
<1>2. p * PageSize \in Nat /\ (p + 1) * PageSize = p * PageSize + PageSize
  BY <1>1
<1> DEFINE a == p * PageSize  b == (p + 1) * PageSize
<1>3. a \in Nat /\ b \in Nat /\ a <= b
  BY <1>1, <1>2
<1>4. On(n, p) = (a + 1) .. Min({n, b})
  BY DEF On
<1> HIDE DEF a, b
<1>5. Min({n, b}) \in Nat /\ Min({n, b}) <= n /\ Min({n, b}) \in {n, b}
  BY <1>3, MinOfTwo
<1>6. On(n, p) \subseteq 1 .. n
  BY <1>3, <1>4, <1>5
<1>7. \A i \in 1 .. n : i <= b /\ i > a => i \in On(n, p)
  BY <1>3, <1>4, <1>5
<1> QED
  BY <1>3, <1>6, <1>7 DEF a, b

\* What has been listed, and when it is not at its end.
Listing ==
  /\ total \in Nat /\ page \in Nat
  /\ shown \subseteq 1 .. total /\ lost \subseteq 1 .. total
  /\ total # 0 => \A i \in 1 .. total : i <= (page + 1) * PageSize => i \in shown \cup lost
  /\ menu = "list" => said = "" /\ (total # 0 /\ IsFinal(total, page) => endLost)
  /\ said = "told" => IsFinal(total, page)
  /\ said = "panic" => endLost

\* Sending a page lists what is on it, or loses it.
LEMMA SendPageLists ==
  ASSUME Listing, menu = "list", NEW n \in Nat, NEW p \in Nat, SendPage(n, p),
         \/ total = 0 /\ p = 0
         \/ total = n /\ p \in {page, page + 1}
  PROVE  Listing'
<1>1. /\ total' = n /\ page' = p /\ said = ""
      /\ \/ /\ lost' = lost \cup (On(n, p) \ shown)
            /\ shown' = shown /\ menu' = menu /\ said' = said
            /\ endLost' = (endLost \/ IsFinal(n, p))
         \/ /\ shown' = shown \cup On(n, p) /\ lost' = lost \ On(n, p)
            /\ \/ ~IsFinal(n, p) /\ menu' = menu /\ said' = said
               \/ IsFinal(n, p) /\ endLost' = TRUE /\ menu' = menu /\ said' = said
               \/ IsFinal(n, p) /\ menu' = "main" /\ said' = "told"
  BY DEF SendPage, Listing
<1>2. On(n, p) \subseteq 1 .. n
  BY Pages
<1>3. shown \subseteq 1 .. n /\ lost \subseteq 1 .. n
  <2>1. CASE total = 0
    <3>1. 1 .. total = {}
      BY <2>1
    <3> QED
      BY <3>1 DEF Listing
  <2>2. CASE total = n
    BY <2>2 DEF Listing
  <2> QED
    BY <2>1, <2>2
<1>4. shown' \cup lost' = shown \cup lost \cup On(n, p)
  BY <1>1
<1>5. ASSUME NEW i \in 1 .. n, i <= (p + 1) * PageSize PROVE i \in shown' \cup lost'
  <2>1. CASE i > p * PageSize
    BY <1>4, <1>5, <2>1, Pages
  <2>2. CASE ~(i > p * PageSize)
    <3>1. p * PageSize \in Nat
      BY Pages
    <3>2. i <= p * PageSize
      BY <2>2, <3>1
    <3>3. p # 0
      <4> SUFFICES ASSUME p = 0 PROVE FALSE
        OBVIOUS
      <4>1. p * PageSize = 0
        BY PageAssumption
      <4> QED
        BY <3>2, <4>1
    <3>4. total = n /\ n # 0 /\ i <= (page + 1) * PageSize
      <4>1. total = n /\ p \in {page, page + 1} /\ page \in Nat
        BY <3>3 DEF Listing
      <4>2. page * PageSize <= (page + 1) * PageSize /\ page * PageSize \in Nat /\ (page + 1) * PageSize \in Nat
        BY <4>1, Pages
      <4>3. CASE p = page
        BY <3>2, <4>1, <4>2, <4>3
      <4>4. CASE p = page + 1
        BY <1>5, <4>1, <4>4, <3>2
      <4> QED
        BY <4>1, <4>3, <4>4
    <3> QED
      BY <1>4, <3>4 DEF Listing
  <2> QED
    BY <2>1, <2>2, Pages
<1>6. menu' = "list" => said' = "" /\ (IsFinal(n, p) => endLost')
  BY <1>1
<1>7. (said' = "told" => IsFinal(n, p)) /\ said' # "panic"
  BY <1>1
<1>8. shown' \subseteq 1 .. n /\ lost' \subseteq 1 .. n
  BY <1>1, <1>2, <1>3
<1> QED
  BY <1>1, <1>5, <1>6, <1>7, <1>8 DEF Listing, IsFinal

\* A list that begins.
LEMMA BeginLists ==
  ASSUME Begin
  PROVE  Listing'
BY DEF Begin, Listing

\* Every step keeps Listing, as far as there are actors to list.
LEMMA ListingStep ==
  ASSUME Listing, actors \in Seq(Users), [Next]_vars
  PROVE  Listing'
<1>1. Len(actors) \in Nat
  OBVIOUS
<1>2. ASSUME UNCHANGED listing, menu' \in {menu, "user", "main"} PROVE Listing'
  BY <1>2 DEF Listing, IsFinal
<1>3. CASE UNCHANGED vars \/ Ignored \/ Reprompt \/ Confirm \/ (\E r \in Refs : SelectUser(r))
  BY <1>2, <1>3 DEF Ignored, Reprompt, Confirm, SelectUser
<1>4. CASE UsersNext /\ UNCHANGED <<menu, acting, listing>>
  BY <1>2, <1>4
<1>5. CASE Abort \/ BeginAction \/ BeginList \/ Restart
  BY <1>5, BeginLists DEF Abort, BeginAction, BeginList, Restart
<1>6. CASE SelectAllUsers
  BY <1>1, <1>6, SendPageLists, 0 \in Nat DEF SelectAllUsers
<1>7. CASE ResendPage
  BY <1>7, SendPageLists DEF ResendPage, Listing
<1>8. CASE NextPage
  <2>1. total \in Nat /\ page \in Nat
    BY DEF Listing
  <2>2. page + 1 \in Nat
    BY <2>1
  <2> QED
    BY <1>8, <2>1, <2>2, SendPageLists DEF NextPage
<1>9. CASE NextPanics
  <2>1. /\ UNCHANGED <<total, page, shown, lost, endLost>>
        /\ menu = "list" /\ total # 0 /\ said' = "panic" /\ menu' = "main"
        /\ (page + 1) * PageSize > total
    BY <1>9 DEF NextPanics
  <2>2. (page + 1) * PageSize \in Nat /\ total \in Nat
    BY Pages DEF Listing
  <2>3. IsFinal(total, page)
    BY <2>1, <2>2 DEF IsFinal
  <2>4. endLost
    BY <2>1, <2>3 DEF Listing
  <2> QED
    BY <2>1, <2>4 DEF Listing, IsFinal
<1> QED
  BY <1>3, <1>4, <1>5, <1>6, <1>7, <1>8, <1>9 DEF Next, AdminNext
-----------------------------------------------------------------------------
\* The table of users.

\* The sessions that create no actor any more.
Settled == {s \in Sessions : actorId[UserOf[s]] # NoActor /\ pc[s] # "create"}
SettledOf(u) == {s \in Settled : UserOf[s] = u}
ActorsOf(u) == {i \in DOMAIN actors : actors[i] = u}

RowsOwn ==
  /\ actorId[Known] # NoActor
  /\ \A u \in Users :
       /\ actorId[u] # NoActor => actors[actorId[u]] = u
       /\ actorId[u] = NoActor => ActorsOf(u) = {}

\* A session creates at most one actor before it is settled.
Counted ==
  /\ Len(actors) <= 1 + Cardinality(Settled)
  /\ \A u \in Users : Cardinality(ActorsOf(u)) <= Cardinality(SettledOf(u))

\* Every name that is stored or on its way has been borne.
Borne ==
  \A u \in Users :
    /\ <<u, bears[u]>> \in borne
    /\ lower[u] # NoName => <<u, lower[u]>> \in borne
    /\ \A s \in Sessions : UserOf[s] = u /\ carried[s] # NoName => <<u, carried[s]>> \in borne

UsersInv == UsersTypeOK /\ RowsOwn /\ Counted /\ Borne

UsersSteps ==
  \/ \E u \in Users, n \in Username : Rename(u, n)
  \/ \E s \in Sessions : Message(s) \/ Step(s) \/ StatementFails(s) \/ Handled(s)
  \/ BotRestarts
  \/ UNCHANGED usersVars

LEMMA StepUsers ==
  ASSUME [Next]_vars
  PROVE  UsersSteps
<1>1. AdminNext => Admin \/ BotRestarts
  BY DEF AdminNext, Ignored, Abort, BeginAction, Reprompt, Confirm, SelectUser, BeginList,
         SelectAllUsers, ResendPage, NextPage, NextPanics
<1>2. Admin => UsersSteps
  BY AdminAssumption DEF Admin, UsersSteps
<1>3. UsersNext => UsersSteps
  BY DEF UsersNext, UsersSteps
<1>4. Restart \/ BotRestarts \/ UNCHANGED vars => UsersSteps
  BY DEF Restart, UsersSteps
<1> QED
  BY <1>1, <1>2, <1>3, <1>4 DEF Next

\* What is settled is finite.
LEMMA SettledFinite ==
  ASSUME NEW T \in SUBSET Sessions
  PROVE  IsFiniteSet(T) /\ Cardinality(T) \in Nat /\ Cardinality(T) <= Cardinality(Sessions)
BY SessionsAssumption, FS_Subset, FS_CardinalityType

LEMMA UsersInitially ==
  ASSUME UsersInit
  PROVE  UsersInv
<1> USE DEF UsersInit, NoActor, Username
<1>1. Known \in Users /\ AdminChat \in Sessions /\ UserOf[AdminChat] = Known
  BY UsersAssumption, AdminAssumption
<1>2. PICK n \in Username : /\ borne = {<<u, bears[u]>> : u \in Users} \cup {<<Known, n>>}
                            /\ lower = [u \in Users |-> IF u = Known THEN n ELSE NoName]
  OBVIOUS
<1>3. actors \in Seq(Users) /\ Len(actors) = 1 /\ DOMAIN actors = {1} /\ actors[1] = Known
  BY <1>1
<1>4. Cardinality(Sessions) \in Nat
  BY SettledFinite
<1>5. UsersTypeOK
  <2>1. bears \in [Users -> Username] /\ borne \subseteq Users \X Username
    BY <1>1, <1>2
  <2>2. lower \in [Users -> Username]
    BY <1>2
  <2>3. renames \in 0 .. MaxRenames
    BY RenamesAssumption
  <2>4. Len(actors) \in Ids
    BY <1>3, <1>4 DEF Ids
  <2>5. actorId \in [Users -> {NoActor} \cup DOMAIN actors]
    BY <1>3
  <2>6. /\ pc \in [Sessions -> {"idle", "find", "create", "update", "read", "handle"}]
        /\ carried \in [Sessions -> Username]
        /\ actor \in [Sessions -> {NoActor} \cup DOMAIN actors]
    OBVIOUS
  <2> QED
    BY <1>3, <2>1, <2>2, <2>3, <2>4, <2>5, <2>6 DEF UsersTypeOK
<1>6. RowsOwn
  <2>1. actorId[Known] # NoActor
    BY <1>1
  <2> QED
    BY <1>3, <2>1 DEF RowsOwn, ActorsOf
<1>7. Counted
  <2>1. Len(actors) <= 1 + Cardinality(Settled)
    <3>1. Cardinality(Settled) \in Nat
      BY SettledFinite DEF Settled
    <3> QED
      BY <1>3, <3>1
  <2>2. ASSUME NEW u \in Users PROVE Cardinality(ActorsOf(u)) <= Cardinality(SettledOf(u))
    <3>1. Cardinality(SettledOf(u)) \in Nat /\ IsFiniteSet(SettledOf(u))
      BY SettledFinite DEF SettledOf, Settled
    <3>2. CASE u # Known
      <4>1. ActorsOf(u) = {}
        BY <1>3, <3>2 DEF ActorsOf
      <4> QED
        BY <3>1, <4>1, FS_EmptySet
    <3>3. CASE u = Known
      <4>1. ActorsOf(u) = {1} /\ AdminChat \in SettledOf(u)
        BY <1>1, <1>3, <3>3 DEF ActorsOf, SettledOf, Settled
      <4>2. Cardinality(ActorsOf(u)) = 1
        BY <4>1, FS_Singleton
      <4>3. Cardinality(SettledOf(u)) # 0
        BY <3>1, <4>1, FS_EmptySet
      <4> QED
        BY <3>1, <4>2, <4>3
    <3> QED
      BY <3>2, <3>3
  <2> QED
    BY <2>1, <2>2 DEF Counted
<1>8. Borne
  BY <1>2 DEF Borne
<1> QED
  BY <1>5, <1>6, <1>7, <1>8 DEF UsersInv

\* What creates no actor unsettles nobody.
LEMMA CountedStays ==
  ASSUME UsersInv, UNCHANGED <<actors, actorId>>,
         \A s \in Sessions : pc'[s] = "create" => pc[s] = "create" \/ actorId[UserOf[s]] = NoActor
  PROVE  Counted' /\ RowsOwn'
<1>1. Settled \subseteq Settled'
  BY DEF Settled
<1>2. Settled' \in SUBSET Sessions
  BY DEF Settled
<1>3. Cardinality(Settled) \in Nat /\ Cardinality(Settled') \in Nat /\ Len(actors) \in Nat
      /\ Cardinality(Settled) <= Cardinality(Settled')
  BY <1>1, <1>2, SettledFinite, FS_Subset DEF UsersInv, UsersTypeOK
<1>4. ASSUME NEW u \in Users
      PROVE  Cardinality(ActorsOf(u)') <= Cardinality(SettledOf(u)')
  <2>1. ActorsOf(u)' = ActorsOf(u) /\ SettledOf(u) \subseteq SettledOf(u)'
    BY <1>1 DEF ActorsOf, SettledOf
  <2>2. SettledOf(u)' \in SUBSET Sessions
    BY <1>2 DEF SettledOf
  <2>3. Cardinality(SettledOf(u)) \in Nat /\ Cardinality(SettledOf(u)') \in Nat
        /\ Cardinality(SettledOf(u)) <= Cardinality(SettledOf(u)')
    BY <2>1, <2>2, SettledFinite, FS_Subset
  <2>4. Cardinality(ActorsOf(u)) <= Cardinality(SettledOf(u))
    BY DEF UsersInv, Counted
  <2>5. IsFiniteSet(DOMAIN actors)
    <3>1. DOMAIN actors = 1 .. Len(actors) /\ Len(actors) \in Nat
      BY DEF UsersInv, UsersTypeOK
    <3> QED
      BY <3>1, FS_Interval
  <2>6. Cardinality(ActorsOf(u)) \in Nat
    BY <2>5, FS_Subset, FS_CardinalityType DEF ActorsOf
  <2> QED
    BY <2>1, <2>3, <2>4, <2>6
<1>5. Counted'
  BY <1>3, <1>4 DEF Counted, UsersInv
<1>6. RowsOwn'
  BY DEF RowsOwn, UsersInv, ActorsOf
<1> QED
  BY <1>5, <1>6

\* A session that creates an actor is settled by it.
LEMMA CountedCreates ==
  ASSUME UsersInv, NEW s \in Sessions, pc[s] = "create", NewActor(UserOf[s]),
         pc' = [pc EXCEPT ![s] = "read"]
  PROVE  Counted' /\ RowsOwn'
<1> DEFINE w == UserOf[s]
           n == Len(actors) + 1
<1>1. w \in Users /\ actors \in Seq(Users) /\ Len(actors) \in Nat
      /\ actorId \in [Users -> {NoActor} \cup DOMAIN actors]
  <2>1. w \in Users
    BY SessionsAssumption
  <2>2. actors \in Seq(Users) /\ actorId \in [Users -> {NoActor} \cup DOMAIN actors]
    BY DEF UsersInv, UsersTypeOK
  <2> HIDE DEF w
  <2> QED
    BY <2>1, <2>2
<1>2. /\ DOMAIN actors' = DOMAIN actors \cup {n} /\ Len(actors') = n
      /\ actors'[n] = w /\ \A i \in DOMAIN actors : actors'[i] = actors[i]
      /\ actorId' = [actorId EXCEPT ![w] = n] /\ n \notin DOMAIN actors /\ n # NoActor
  BY <1>1 DEF NewActor, NoActor
<1> HIDE DEF n
<1>3. Settled \cup {s} \subseteq Settled' /\ s \notin Settled
  <2>1. pc \in [Sessions -> {"idle", "find", "create", "update", "read", "handle"}]
    BY DEF UsersInv, UsersTypeOK
  <2> QED
    BY <1>1, <1>2, <2>1, SessionsAssumption DEF Settled
<1>4. ASSUME NEW T \in SUBSET Sessions, NEW U \in SUBSET Sessions, s \notin T, T \cup {s} \subseteq U
      PROVE  Cardinality(T) \in Nat /\ Cardinality(U) \in Nat /\ Cardinality(T) + 1 <= Cardinality(U)
  <2>1. Cardinality(T \cup {s}) = Cardinality(T) + 1
    BY <1>4, SettledFinite, FS_AddElement
  <2>2. Cardinality(T \cup {s}) <= Cardinality(U)
    BY <1>4, SettledFinite, FS_Subset
  <2> QED
    BY <2>1, <2>2, SettledFinite
<1>5. Settled \in SUBSET Sessions /\ Settled' \in SUBSET Sessions
  BY DEF Settled
<1>6. Len(actors') <= 1 + Cardinality(Settled')
  <2>1. Cardinality(Settled) \in Nat /\ Cardinality(Settled') \in Nat
        /\ Cardinality(Settled) + 1 <= Cardinality(Settled')
    BY <1>3, <1>4, <1>5
  <2> QED
    BY <1>1, <1>2, <2>1 DEF UsersInv, Counted, n
<1>7. ASSUME NEW u \in Users
      PROVE  Cardinality(ActorsOf(u)') <= Cardinality(SettledOf(u)')
  <2>1. IsFiniteSet(ActorsOf(u)) /\ Cardinality(ActorsOf(u)) \in Nat
    <3>1. IsFiniteSet(DOMAIN actors)
      BY <1>1, FS_Interval
    <3> QED
      BY <3>1, FS_Subset, FS_CardinalityType DEF ActorsOf
  <2>2. SettledOf(u) \in SUBSET Sessions /\ SettledOf(u)' \in SUBSET Sessions
        /\ SettledOf(u) \subseteq SettledOf(u)'
    BY <1>3, <1>5 DEF SettledOf
  <2>3. Cardinality(ActorsOf(u)) <= Cardinality(SettledOf(u))
    BY DEF UsersInv, Counted
  <2>4. CASE u = w
    <3>1. ActorsOf(u)' = ActorsOf(u) \cup {n} /\ n \notin ActorsOf(u)
      BY <1>2, <2>4 DEF ActorsOf
    <3>2. Cardinality(ActorsOf(u)') = Cardinality(ActorsOf(u)) + 1
      BY <2>1, <3>1, FS_AddElement
    <3>3. s \notin SettledOf(u) /\ SettledOf(u) \cup {s} \subseteq SettledOf(u)'
      BY <1>3, <2>2, <2>4 DEF SettledOf
    <3>4. Cardinality(SettledOf(u)) \in Nat /\ Cardinality(SettledOf(u)') \in Nat
          /\ Cardinality(SettledOf(u)) + 1 <= Cardinality(SettledOf(u)')
      BY <1>4, <2>2, <3>3
    <3> QED
      BY <2>1, <2>3, <3>2, <3>4
  <2>5. CASE u # w
    <3>1. ActorsOf(u)' = ActorsOf(u)
      BY <1>2, <2>5 DEF ActorsOf
    <3>2. Cardinality(SettledOf(u)) \in Nat /\ Cardinality(SettledOf(u)') \in Nat
          /\ Cardinality(SettledOf(u)) <= Cardinality(SettledOf(u)')
      BY <2>2, SettledFinite, FS_Subset
    <3> QED
      BY <2>1, <2>3, <3>1, <3>2
  <2> QED
    BY <2>4, <2>5
<1>8. Counted'
  BY <1>6, <1>7 DEF Counted
<1>9. RowsOwn'
  <2>1. RowsOwn
    BY DEF UsersInv
  <2>4. actorId'[Known] # NoActor
    BY <1>1, <1>2, <2>1, UsersAssumption DEF RowsOwn
  <2> SUFFICES ASSUME NEW u \in Users
               PROVE  /\ actorId'[u] # NoActor => actors'[actorId'[u]] = u
                      /\ actorId'[u] = NoActor => ActorsOf(u)' = {}
    BY <2>4 DEF RowsOwn
  <2>2. CASE u = w
    BY <1>1, <1>2, <2>2
  <2>3. CASE u # w
    BY <1>1, <1>2, <2>1, <2>3 DEF RowsOwn, ActorsOf
  <2> QED
    BY <2>2, <2>3
<1> QED
  BY <1>8, <1>9

\* Every step of the users, of their messages and of the bot keeps UsersInv; actors
\* are only added.
LEMMA UsersStep ==
  ASSUME UsersInv, UsersSteps
  PROVE  /\ UsersInv'
         /\ borne \subseteq borne'
         /\ DOMAIN actors \subseteq DOMAIN actors' /\ \A i \in DOMAIN actors : actors'[i] = actors[i]
<1> USE SessionsAssumption DEF Username
<1>1. /\ bears \in [Users -> Username] /\ borne \subseteq Users \X Username
      /\ renames \in 0 .. MaxRenames
      /\ actors \in Seq(Users) /\ Len(actors) \in Ids
      /\ actorId \in [Users -> {NoActor} \cup DOMAIN actors]
      /\ lower \in [Users -> Username]
      /\ pc \in [Sessions -> {"idle", "find", "create", "update", "read", "handle"}]
      /\ carried \in [Sessions -> Username]
      /\ actor \in [Sessions -> {NoActor} \cup DOMAIN actors]
  BY DEF UsersInv, UsersTypeOK
<1>2. Borne
  BY DEF UsersInv
<1> DEFINE Kept == /\ UsersTypeOK' /\ Borne' /\ borne \subseteq borne'
                   /\ UNCHANGED <<actors, actorId>>
                   /\ \A s \in Sessions : pc'[s] = "create" =>
                        pc[s] = "create" \/ actorId[UserOf[s]] = NoActor
<1>3. ASSUME NEW u \in Users, NEW n \in Username, Rename(u, n) PROVE Kept
  <2>1. renames' \in 0 .. MaxRenames
    BY <1>1, <1>3, RenamesAssumption DEF Rename
  <2>2. /\ bears' = [bears EXCEPT ![u] = n] /\ borne' = borne \cup {<<u, n>>}
        /\ UNCHANGED <<table, message>>
    BY <1>3 DEF Rename
  <2>3. bears' \in [Users -> Username] /\ borne' \subseteq Users \X Username
    BY <1>1, <2>2
  <2>4. UsersTypeOK'
    BY <1>1, <2>1, <2>2, <2>3 DEF UsersTypeOK
  <2>5. Borne'
    BY <1>1, <1>2, <2>2 DEF Borne
  <2> QED
    BY <2>2, <2>4, <2>5
<1>4. ASSUME NEW s \in Sessions, Message(s) PROVE Kept
  <2>1. /\ pc' = [pc EXCEPT ![s] = "find"]
        /\ carried' = [carried EXCEPT ![s] = bears[UserOf[s]]]
        /\ UNCHANGED <<telegram, table, actor>>
    BY <1>4 DEF Message
  <2>2. UsersTypeOK'
    BY <1>1, <2>1 DEF UsersTypeOK
  <2>3. Borne'
    BY <1>1, <1>2, <2>1 DEF Borne
  <2> QED
    BY <1>1, <2>1, <2>2, <2>3
<1>5. ASSUME NEW s \in Sessions, Find(s) PROVE Kept
  <2>1. /\ pc' = [pc EXCEPT ![s] = IF actorId[UserOf[s]] = NoActor THEN "create" ELSE "update"]
        /\ UNCHANGED <<telegram, table, carried, actor>>
    BY <1>5 DEF Find
  <2>2. UsersTypeOK'
    BY <1>1, <2>1 DEF UsersTypeOK
  <2>3. Borne'
    BY <1>1, <1>2, <2>1 DEF Borne
  <2> QED
    BY <1>1, <2>1, <2>2, <2>3
<1>6. ASSUME NEW s \in Sessions, Update(s) PROVE Kept
  <2>1. /\ pc' = [pc EXCEPT ![s] = "read"]
        /\ lower' = [lower EXCEPT ![UserOf[s]] = IF carried[s] = NoName THEN @ ELSE carried[s]]
        /\ UNCHANGED <<telegram, actors, actorId, carried, actor>>
    BY <1>6 DEF Update
  <2>2. UsersTypeOK'
    BY <1>1, <2>1 DEF UsersTypeOK
  <2>3. Borne'
    BY <1>1, <1>2, <2>1 DEF Borne
  <2> QED
    BY <1>1, <2>1, <2>2, <2>3
<1>7. ASSUME NEW s \in Sessions, ReadActor(s) \/ StatementFails(s) \/ Handled(s) PROVE Kept
  <2>1. /\ \E c \in {"handle", "idle"} : pc' = [pc EXCEPT ![s] = c]
        /\ carried' = carried \/ carried' = [carried EXCEPT ![s] = NoName]
        /\ \E a \in {NoActor, actor[s], actorId[UserOf[s]]} : actor' = [actor EXCEPT ![s] = a]
        /\ UNCHANGED <<telegram, table>>
    BY <1>1, <1>7 DEF ReadActor, StatementFails, Handled
  <2>2. /\ pc' \in [Sessions -> {"idle", "find", "create", "update", "read", "handle"}]
        /\ carried' \in [Sessions -> Username]
        /\ actor' \in [Sessions -> {NoActor} \cup DOMAIN actors]
    BY <1>1, <2>1
  <2>3. UsersTypeOK'
    BY <1>1, <2>1, <2>2 DEF UsersTypeOK
  <2>4. Borne'
    BY <1>1, <1>2, <2>1 DEF Borne
  <2> QED
    BY <1>1, <2>1, <2>3, <2>4
<1>8. ASSUME BotRestarts PROVE Kept
  <2>1. /\ pc' = [s \in Sessions |-> "idle"] /\ actor' = [s \in Sessions |-> NoActor]
        /\ carried' = [s \in Sessions |-> NoName] /\ UNCHANGED <<telegram, table>>
    BY <1>8 DEF BotRestarts
  <2>2. UsersTypeOK'
    BY <1>1, <2>1 DEF UsersTypeOK
  <2>3. Borne'
    BY <1>1, <1>2, <2>1 DEF Borne
  <2> QED
    BY <2>1, <2>2, <2>3
<1>9. ASSUME UNCHANGED usersVars PROVE Kept
  <2>1. UsersTypeOK'
    BY <1>1, <1>9 DEF UsersTypeOK
  <2>2. Borne'
    BY <1>2, <1>9 DEF Borne
  <2> QED
    BY <1>9, <2>1, <2>2
<1>10. ASSUME Kept
       PROVE  UsersInv' /\ borne \subseteq borne' /\ actors' = actors
  BY <1>10, CountedStays DEF UsersInv
<1>11. ASSUME NEW s \in Sessions, Create(s), actorId[UserOf[s]] # NoActor, UNCHANGED <<actors, actorId>>
       PROVE  Kept
  <2>1. /\ pc' = [pc EXCEPT ![s] = "read"]
        /\ UNCHANGED <<telegram, lower, carried, actor>>
    BY <1>11 DEF Create
  <2>2. UsersTypeOK'
    BY <1>1, <1>11, <2>1 DEF UsersTypeOK
  <2>3. Borne'
    BY <1>1, <1>2, <1>11, <2>1 DEF Borne
  <2> QED
    BY <1>1, <1>11, <2>1, <2>2, <2>3
<1>12. ASSUME NEW s \in Sessions, Create(s), NewActor(UserOf[s])
       PROVE  /\ UsersInv' /\ borne \subseteq borne'
              /\ DOMAIN actors \subseteq DOMAIN actors'
              /\ \A i \in DOMAIN actors : actors'[i] = actors[i]
  <2>1. /\ pc[s] = "create" /\ pc' = [pc EXCEPT ![s] = "read"]
        /\ UNCHANGED <<telegram, lower, carried, actor>>
    BY <1>12 DEF Create
  <2>2. UserOf[s] \in Users /\ Len(actors) \in Nat
    BY <1>1
  <2>3. Counted' /\ RowsOwn'
    BY <1>12, <2>1, CountedCreates
  <2>4. /\ actors' \in Seq(Users) /\ Len(actors') \in Nat
        /\ DOMAIN actors' = DOMAIN actors \cup {Len(actors) + 1} /\ Len(actors') = Len(actors) + 1
        /\ \A i \in DOMAIN actors : actors'[i] = actors[i]
    BY <1>1, <1>12, <2>2 DEF NewActor
  <2>5. Len(actors') \in Ids
    <3>1. Settled' \in SUBSET Sessions
      BY DEF Settled
    <3>2. /\ Cardinality(Settled') \in Nat /\ Cardinality(Sessions) \in Nat
          /\ Cardinality(Settled') <= Cardinality(Sessions)
      BY <3>1, SettledFinite
    <3> QED
      BY <2>2, <2>3, <2>4, <3>2 DEF Counted, Ids
  <2>6. actorId' \in [Users -> {NoActor} \cup DOMAIN actors']
    BY <1>1, <1>12, <2>2, <2>4 DEF NewActor
  <2>7. /\ pc' \in [Sessions -> {"idle", "find", "create", "update", "read", "handle"}]
        /\ actor' \in [Sessions -> {NoActor} \cup DOMAIN actors']
    BY <1>1, <2>1, <2>4
  <2>8. UsersTypeOK'
    BY <1>1, <2>1, <2>4, <2>5, <2>6, <2>7 DEF UsersTypeOK
  <2>9. Borne'
    BY <1>2, <2>1 DEF Borne
  <2> QED
    BY <2>1, <2>3, <2>4, <2>8, <2>9 DEF UsersInv
<1> HIDE DEF Kept
<1>13. ASSUME NEW s \in Sessions, Create(s)
       PROVE  /\ UsersInv' /\ borne \subseteq borne'
              /\ DOMAIN actors \subseteq DOMAIN actors'
              /\ \A i \in DOMAIN actors : actors'[i] = actors[i]
  <2>1. CASE NewActor(UserOf[s])
    BY <1>12, <1>13, <2>1
  <2>2. CASE actorId[UserOf[s]] # NoActor /\ UNCHANGED <<actors, actorId>>
    BY <1>10, <1>11, <1>13, <2>2
  <2> QED
    BY <1>13, <2>1, <2>2 DEF Create
<1>14. Kept \/ \E s \in Sessions : Create(s)
  BY <1>3, <1>4, <1>5, <1>6, <1>7, <1>8, <1>9 DEF UsersSteps, Step
<1> QED
  BY <1>10, <1>13, <1>14

-----------------------------------------------------------------------------
\* Whom the admin acts on.

\* What GORM drops from a condition.
Zeros == {[by |-> "id", id |-> 0], [by |-> "name", name |-> NoName]}

\* Actor a is of the user that was referred to by r, or of one First finds for a zero.
Named(r, a) ==
  /\ r \in Refs /\ a \in DOMAIN actors
  /\ \/ r.by = "id" /\ r.id = actors[a]
     \/ r.by = "name" /\ r.name # NoName /\ <<actors[a], r.name>> \in borne
     \/ r \in Zeros /\ actors[a] <= Known

Selecting ==
  /\ selected = NoActor \/ Named(ref, selected)
  /\ acted = Unacted \/ Named(acted.ref, acted.actor)

\* What is found has been referred to; a zero finds the first row of all, and Known has one.
LEMMA LookupNamed ==
  ASSUME UsersInv, NEW r \in Refs, Lookup(r) # NoActor
  PROVE  Named(r, Lookup(r))
<1>1. /\ Users \subseteq Nat /\ actorId \in [Users -> {NoActor} \cup DOMAIN actors]
      /\ Borne /\ RowsOwn
  BY UsersAssumption DEF UsersInv, UsersTypeOK
<1>2. ASSUME NEW T \in SUBSET Rows, First(T) # NoActor
      PROVE  /\ \E u \in T : First(T) = actorId[u] /\ actors[First(T)] = u /\ First(T) \in DOMAIN actors
             /\ T = Rows => actors[First(T)] <= Known
  <2>1. T # {} /\ First(T) = actorId[Min(T)]
    BY <1>2 DEF First
  <2>2. T \in SUBSET Nat
    BY <1>1 DEF Rows
  <2>3. Min(T) \in T
    BY <2>1, <2>2, MinIsLeast
  <2>4. PICK u \in T : u = Min(T)
    BY <2>3
  <2>5. u \in Users /\ actorId[u] # NoActor /\ First(T) = actorId[u]
    BY <2>1, <2>4 DEF Rows
  <2>6. actorId[u] \in DOMAIN actors /\ actors[actorId[u]] = u
    BY <1>1, <2>5 DEF RowsOwn
  <2>7. Known \in Rows
    BY <1>1, UsersAssumption DEF RowsOwn, Rows
  <2>8. T = Rows => u <= Known
    BY <2>2, <2>4, <2>7, MinIsLeast
  <2> QED
    BY <2>5, <2>6, <2>8
<1>3. CASE r.by = "id"
  <2>1. Lookup(r) = First({u \in Rows : r.id = 0 \/ u = r.id})
    BY <1>3 DEF Lookup, GetActorByTgUser
  <2> DEFINE T == {u \in Rows : r.id = 0 \/ u = r.id}
  <2>2. T \in SUBSET Rows /\ Lookup(r) = First(T)
    BY <2>1
  <2>3. CASE r.id = 0
    <3>1. T = Rows
      BY <2>3
    <3>2. r = [by |-> "id", id |-> 0]
      BY <1>3, <2>3 DEF Refs
    <3> HIDE DEF T
    <3>3. actors[Lookup(r)] <= Known /\ Lookup(r) \in DOMAIN actors
      BY <1>2, <2>2, <3>1
    <3> QED
      BY <3>2, <3>3 DEF Named, Zeros
  <2>4. CASE r.id # 0
    <3>1. PICK u \in T : actors[Lookup(r)] = u /\ Lookup(r) \in DOMAIN actors
      <4> HIDE DEF T
      <4> QED
        BY <1>2, <2>2
    <3> QED
      BY <1>3, <2>4, <3>1 DEF Named
  <2> QED
    BY <2>3, <2>4
<1>4. CASE r.by # "id"
  <2>1. r.by = "name" /\ Lookup(r) = First({u \in Rows : r.name = NoName \/ lower[u] = r.name})
    BY <1>4 DEF Lookup, GetActorByTgUserName, Refs
  <2> DEFINE T == {u \in Rows : r.name = NoName \/ lower[u] = r.name}
  <2>2. T \in SUBSET Rows /\ Lookup(r) = First(T)
    BY <2>1
  <2>3. CASE r.name = NoName
    <3>1. T = Rows
      BY <2>3
    <3>2. r = [by |-> "name", name |-> NoName]
      BY <1>4, <2>3 DEF Refs
    <3> HIDE DEF T
    <3>3. actors[Lookup(r)] <= Known /\ Lookup(r) \in DOMAIN actors
      BY <1>2, <2>2, <3>1
    <3> QED
      BY <3>2, <3>3 DEF Named, Zeros
  <2>4. CASE r.name # NoName
    <3>1. PICK u \in T : actors[Lookup(r)] = u /\ Lookup(r) \in DOMAIN actors
      <4> HIDE DEF T
      <4> QED
        BY <1>2, <2>2
    <3>2. <<u, r.name>> \in borne
      BY <1>1, <2>4, <3>1 DEF Rows, Borne
    <3> QED
      BY <2>1, <2>4, <3>1, <3>2 DEF Named
  <2> QED
    BY <2>3, <2>4
<1> QED
  BY <1>3, <1>4

\* Every step keeps Selecting: no user loses a name he has borne, no actor his user.
LEMMA SelectingStep ==
  ASSUME UsersInv, Selecting, [Next]_vars
  PROVE  Selecting'
<1>1. /\ borne \subseteq borne'
      /\ DOMAIN actors \subseteq DOMAIN actors' /\ \A i \in DOMAIN actors : actors'[i] = actors[i]
  BY StepUsers, UsersStep
<1>2. ASSUME NEW r, NEW a, Named(r, a) PROVE Named(r, a)'
  BY <1>1, <1>2 DEF Named
<1>3. ASSUME UNCHANGED <<selected, ref, acted>> PROVE Selecting'
  <2>1. selected = NoActor \/ Named(ref, selected)'
    BY <1>2, <1>3 DEF Selecting
  <2>2. acted = Unacted \/ Named(acted.ref, acted.actor)'
    BY <1>2, <1>3 DEF Selecting
  <2> QED
    BY <1>3, <2>1, <2>2 DEF Selecting
<1>4. ASSUME Begin PROVE Selecting'
  BY <1>4 DEF Begin, Selecting
<1>5. ASSUME NEW r \in Refs, SelectUser(r) PROVE Selecting'
  <2>1. Lookup(r) # NoActor /\ selected' = Lookup(r) /\ ref' = r /\ acted' = acted
    BY <1>5 DEF SelectUser
  <2>2. Named(r, Lookup(r))
    BY <2>1, LookupNamed
  <2>3. PICK a : a = Lookup(r)
    OBVIOUS
  <2>4. Named(r, a)'
    BY <1>2, <2>2, <2>3
  <2>5. selected' = a
    BY <2>1, <2>3
  <2>6. acted = Unacted \/ Named(acted.ref, acted.actor)'
    BY <1>2, <2>1 DEF Selecting
  <2> QED
    BY <2>1, <2>4, <2>5, <2>6 DEF Selecting
<1>6. ASSUME Confirm PROVE Selecting'
  <2>1. /\ selected # NoActor /\ acted' = [ref |-> ref, actor |-> selected]
        /\ selected' = selected /\ ref' = ref
    BY <1>6 DEF Confirm
  <2>2. PICK r, a : r = ref /\ a = selected
    OBVIOUS
  <2>3. Named(r, a)'
    BY <1>2, <2>1, <2>2 DEF Selecting
  <2>4. selected' = a /\ ref' = r /\ acted'.ref = r /\ acted'.actor = a
    BY <2>1, <2>2
  <2> QED
    BY <2>3, <2>4 DEF Selecting
<1>7. AdminNext => Begin \/ Confirm \/ (\E r \in Refs : SelectUser(r)) \/ UNCHANGED <<selected, ref, acted>>
  BY DEF AdminNext, Ignored, Abort, BeginAction, Reprompt, BeginList,
         SelectAllUsers, ResendPage, NextPage, NextPanics
<1>8. Restart => Begin
  BY DEF Restart
<1> QED
  BY <1>3, <1>4, <1>5, <1>6, <1>7, <1>8 DEF Next

-----------------------------------------------------------------------------
\* The types of the admin's part, as far as the list does not give them.
AdminTypes ==
  /\ menu \in {"main", "user", "list"}
  /\ selected \in {NoActor} \cup DOMAIN actors /\ ref \in Refs \cup {NoRef}
  /\ described \in {NoActor} \cup DOMAIN actors
  /\ acted.ref \in Refs \cup {NoRef} /\ acted.actor \in {NoActor} \cup DOMAIN actors
  /\ said \in {"", "told", "panic"}

ListTypes == total \in 0 .. Len(actors) /\ page * PageSize <= total

EndType == endLost \in BOOLEAN

LEMMA AdminTypesStep ==
  ASSUME UsersInv, AdminTypes, [Next]_vars
  PROVE  AdminTypes'
<1>1. DOMAIN actors \subseteq DOMAIN actors'
  BY StepUsers, UsersStep
<1>2. \A s \in Sessions : actor[s] \in {NoActor} \cup DOMAIN actors
  BY DEF UsersInv, UsersTypeOK
<1>3. actor[AdminChat] \in {NoActor} \cup DOMAIN actors
  BY <1>2, AdminAssumption
<1>4. ASSUME UNCHANGED acting,
             menu' \in {"main", "user", "list"} /\ said' \in {"", "told", "panic"}
      PROVE  AdminTypes'
  BY <1>1, <1>4 DEF AdminTypes
<1>5. ASSUME Begin, menu' \in {"main", "user", "list"} PROVE AdminTypes'
  BY <1>5 DEF Begin, AdminTypes, Unacted
<1>6. ASSUME NEW r \in Refs, SelectUser(r) PROVE AdminTypes'
  <2>1. Lookup(r) \in DOMAIN actors
    BY <1>6, LookupNamed DEF SelectUser, Named
  <2> QED
    BY <1>1, <1>3, <1>6, <2>1 DEF SelectUser, PromptForConfirmation, AdminTypes
<1>7. ASSUME Reprompt PROVE AdminTypes'
  BY <1>1, <1>3, <1>7 DEF Reprompt, PromptForConfirmation, AdminTypes
<1>8. ASSUME Confirm PROVE AdminTypes'
  BY <1>1, <1>8 DEF Confirm, AdminTypes
<1>9. ASSUME NEW n, NEW p, menu = "list", SendPage(n, p), UNCHANGED acting PROVE AdminTypes'
  <2>1. menu' \in {menu, "main"} /\ said' \in {said, "told"}
    BY <1>9 DEF SendPage
  <2> QED
    BY <1>4, <1>9, <2>1 DEF AdminTypes
<1>10. CASE Ignored \/ UNCHANGED vars \/ (UsersNext /\ UNCHANGED <<menu, acting, listing>>)
  BY <1>4, <1>10 DEF Ignored, AdminTypes
<1>11. CASE Abort \/ BeginAction \/ BeginList \/ Restart
  BY <1>5, <1>11 DEF Abort, BeginAction, BeginList, Restart
<1>12. CASE SelectAllUsers \/ ResendPage \/ NextPage
  BY <1>9, <1>12 DEF SelectAllUsers, ResendPage, NextPage
<1>13. CASE NextPanics
  BY <1>4, <1>13 DEF NextPanics
<1> QED
  BY <1>6, <1>7, <1>8, <1>10, <1>11, <1>12, <1>13 DEF Next, AdminNext

LEMMA ListTypesStep ==
  ASSUME UsersInv, Listing, ListTypes, [Next]_vars
  PROVE  ListTypes'
<1>1. actors \in Seq(Users) /\ actors' \in Seq(Users) /\ DOMAIN actors \subseteq DOMAIN actors'
  BY StepUsers, UsersStep DEF UsersInv, UsersTypeOK
<1>2. Len(actors) \in Nat /\ Len(actors') \in Nat /\ Len(actors) <= Len(actors')
  <2>1. /\ Len(actors) \in Nat /\ Len(actors') \in Nat
        /\ DOMAIN actors = 1 .. Len(actors) /\ DOMAIN actors' = 1 .. Len(actors')
    BY <1>1
  <2> QED
    BY <1>1, <2>1
<1>3. total \in Nat /\ page \in Nat /\ PageSize \in Nat /\ total <= Len(actors) /\ page * PageSize <= total
  <2>1. PageSize \in Nat
    BY PageAssumption
  <2>2. total \in Nat /\ page \in Nat
    BY DEF Listing
  <2>3. total \in 0 .. Len(actors) /\ page * PageSize <= total
    BY DEF ListTypes
  <2> QED
    BY <1>2, <2>1, <2>2, <2>3
<1>4. ASSUME UNCHANGED <<total, page>> PROVE ListTypes'
  BY <1>2, <1>3, <1>4 DEF ListTypes
<1>5. ASSUME total' = 0, page' = 0 PROVE ListTypes'
  BY <1>2, <1>3, <1>5 DEF ListTypes
<1>6. CASE Ignored \/ UNCHANGED vars \/ (UsersNext /\ UNCHANGED <<menu, acting, listing>>)
           \/ Reprompt \/ Confirm \/ NextPanics \/ ResendPage \/ \E r \in Refs : SelectUser(r)
  BY <1>4, <1>6 DEF Ignored, Reprompt, Confirm, NextPanics, ResendPage, SendPage, SelectUser
<1>7. CASE Abort \/ BeginAction \/ BeginList \/ Restart
  BY <1>5, <1>7 DEF Abort, BeginAction, BeginList, Restart, Begin
<1>8. CASE SelectAllUsers
  <2>1. total' = Len(actors) /\ page' = 0
    BY <1>8 DEF SelectAllUsers, SendPage
  <2> QED
    BY <1>2, <1>3, <2>1 DEF ListTypes
<1>9. CASE NextPage
  <2>1. total' = total /\ page' = page + 1 /\ (page + 1) * PageSize <= total
    BY <1>9 DEF NextPage, SendPage
  <2> QED
    BY <1>2, <1>3, <2>1 DEF ListTypes
<1> QED
  BY <1>6, <1>7, <1>8, <1>9 DEF Next, AdminNext

LEMMA EndTypeStep ==
  ASSUME EndType, [Next]_vars
  PROVE  EndType'
<1>1. ASSUME endLost' \in {endLost, TRUE, FALSE} PROVE EndType'
  BY <1>1 DEF EndType
<1>2. ASSUME NEW n, NEW p, SendPage(n, p) PROVE EndType'
  BY <1>1, <1>2 DEF SendPage, IsFinal, EndType
<1>3. CASE SelectAllUsers \/ ResendPage \/ NextPage
  BY <1>2, <1>3 DEF SelectAllUsers, ResendPage, NextPage
<1>4. CASE ~(SelectAllUsers \/ ResendPage \/ NextPage)
  <2>1. endLost' = endLost \/ endLost' = FALSE
    BY <1>4 DEF Next, AdminNext, Ignored, Abort, BeginAction, BeginList, Begin, Reprompt, Confirm,
                SelectUser, NextPanics, Restart
  <2> QED
    BY <1>1, <2>1
<1> QED
  BY <1>3, <1>4

Inv == UsersInv /\ Listing /\ Selecting /\ AdminTypes /\ ListTypes /\ EndType

LEMMA Invariance == Spec => []Inv
<1>1. Init => Inv
  <2> SUFFICES ASSUME Init PROVE Inv
    OBVIOUS
  <2>1. UsersInv
    BY UsersInitially DEF Init
  <2>2. Len(actors) \in Nat /\ 0 * PageSize = 0
    BY <2>1, PageAssumption DEF UsersInv, UsersTypeOK
  <2>3. Listing
    BY DEF Init, Listing
  <2>4. Selecting /\ AdminTypes
    BY DEF Init, Selecting, AdminTypes, Unacted
  <2>5. ListTypes
    <3>1. total = 0 /\ page = 0
      BY DEF Init
    <3> QED
      BY <2>2, <3>1 DEF ListTypes
  <2>6. EndType
    BY DEF Init, EndType
  <2> QED
    BY <2>1, <2>3, <2>4, <2>5, <2>6 DEF Inv
<1>2. Inv /\ [Next]_vars => Inv'
  <2> SUFFICES ASSUME Inv, [Next]_vars PROVE Inv'
    OBVIOUS
  <2>1. UsersInv /\ Listing /\ Selecting /\ AdminTypes /\ ListTypes /\ EndType
    BY DEF Inv
  <2>2. UsersInv'
    BY <2>1, StepUsers, UsersStep
  <2>3. actors \in Seq(Users)
    BY <2>1 DEF UsersInv, UsersTypeOK
  <2> QED
    BY <2>1, <2>2, <2>3, ListingStep, SelectingStep, AdminTypesStep, ListTypesStep, EndTypeStep DEF Inv
<1> QED
  BY <1>1, <1>2, PTL DEF Spec

\* Every variable of AdminMenu and TgUsers keeps its type; a page of a list never begins
\* behind its end.
THEOREM TypeCorrect == Spec => []TypeOK
<1>1. Inv => TypeOK
  <2> SUFFICES ASSUME Inv PROVE TypeOK
    OBVIOUS
  <2>1. UsersTypeOK /\ AdminTypes
    BY DEF Inv, UsersInv
  <2>2. /\ total \in 0 .. Len(actors) /\ page * PageSize <= total /\ total \in Nat /\ page \in Nat
        /\ shown \subseteq 1 .. total /\ lost \subseteq 1 .. total
    BY DEF Inv, Listing, ListTypes
  <2>3. page * PageSize \in Nat
    BY <2>2, Pages
  <2>4. page * PageSize \in 0 .. total
    BY <2>2, <2>3
  <2>5. endLost \in BOOLEAN
    BY DEF Inv, EndType
  <2>6. endLost \in BOOLEAN => TypeOK
    BY <2>1, <2>2, <2>4 DEF TypeOK, AdminTypes
  <2> QED
    BY <2>5, <2>6
<1> QED
  BY <1>1, Invariance, PTL

\* A row's actor is its user's, and nobody gets more actors than he has chats, however
\* the first messages of new users overlap.
THEOREM OwnActors == Spec => []UsersActors
<1>1. Inv => UsersActors
  <2> SUFFICES ASSUME Inv, NEW u \in Users
               PROVE  /\ actorId[u] # NoActor => actors[actorId[u]] = u
                      /\ Cardinality({i \in DOMAIN actors : actors[i] = u})
                           <= Cardinality({s \in Sessions : UserOf[s] = u})
    BY DEF UsersActors
  <2> DEFINE All == {s \in Sessions : UserOf[s] = u}
  <2>1. actorId[u] # NoActor => actors[actorId[u]] = u
    BY DEF Inv, UsersInv, RowsOwn
  <2>2. Cardinality(ActorsOf(u)) <= Cardinality(SettledOf(u))
    BY DEF Inv, UsersInv, Counted
  <2>3. SettledOf(u) \subseteq All /\ All \in SUBSET Sessions /\ SettledOf(u) \in SUBSET Sessions
    BY DEF SettledOf, Settled
  <2>4. /\ Cardinality(SettledOf(u)) <= Cardinality(All)
        /\ Cardinality(SettledOf(u)) \in Nat /\ Cardinality(All) \in Nat
    BY <2>3, SettledFinite, FS_Subset
  <2>5. Cardinality(ActorsOf(u)) \in Nat
    <3>1. DOMAIN actors = 1 .. Len(actors) /\ Len(actors) \in Nat
      BY DEF Inv, UsersInv, UsersTypeOK
    <3>2. IsFiniteSet(DOMAIN actors)
      BY <3>1, FS_Interval
    <3> QED
      BY <3>2, FS_Subset, FS_CardinalityType DEF ActorsOf
  <2>6. Cardinality(ActorsOf(u)) <= Cardinality(All)
    BY <2>2, <2>4, <2>5
  <2> QED
    BY <2>1, <2>6 DEF ActorsOf
<1> QED
  BY <1>1, Invariance, PTL

\* Whom the admin approves, rejects or bans has the number or has borne the username
\* that he wrote; with 0 and a bare @ he acts on himself or on a user with a smaller
\* number, and on nobody else.
THEOREM NamedOrFirst == Spec => []ActedOnNamed
<1>1. Inv => ActedOnNamed
  BY DEF Inv, Selecting, Named, Zeros, ActedOnNamed
<1> QED
  BY <1>1, Invariance, PTL

\* A list that is said to have ended has been sent from its beginning to its end.
THEOREM WholeList == Spec => []EveryoneListed
<1>1. Inv => EveryoneListed
  <2> SUFFICES ASSUME Inv, said = "told" PROVE 1 .. total = shown \cup lost
    BY DEF EveryoneListed
  <2>1. Listing /\ total \in Nat /\ page \in Nat /\ shown \cup lost \subseteq 1 .. total
    BY DEF Inv, Listing
  <2>2. total <= (page + 1) * PageSize
    BY <2>1 DEF Listing, IsFinal
  <2>3. (page + 1) * PageSize \in Nat
    BY <2>1, Pages
  <2>4. ASSUME NEW i \in 1 .. total PROVE i \in shown \cup lost
    <3>1. total # 0 /\ i <= (page + 1) * PageSize
      BY <2>1, <2>2, <2>3
    <3> QED
      BY <2>1, <3>1 DEF Listing
  <2> QED
    BY <2>1, <2>4
<1> QED
  BY <1>1, Invariance, PTL

\* Where the end of a list has arrived no /next makes the bot panic.
THEOREM PanicOnlyLost == Spec => []PanicNeedsLostEnd
<1>1. Inv => PanicNeedsLostEnd
  BY DEF Inv, Listing, PanicNeedsLostEnd
<1> QED
  BY <1>1, Invariance, PTL
=============================================================================
