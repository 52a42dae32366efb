----------------------------- MODULE ViewProofs -----------------------------
(***************************************************************************)
(* No page shuts out the server for good: proofs about ViewPermission.     *)
(***************************************************************************)
EXTENDS ViewPermission, TLAPS

Awaited == {"sent", "stored", "refused"}

ViewInv == ViewTypeOK /\ FlagHasRequest

\* One request moves on, the others stay.
LEMMA MovesOn ==
    ASSUME ViewTypeOK, NEW i \in Posts, NEW at \in PostAt, Moves(i, at)
    PROVE  /\ post' \in Seq(Post)
           /\ Posts' = Posts
           /\ \A k \in Posts : post'[k].page = post[k].page
           /\ \A k \in Posts \ {i} : post'[k] = post[k]
           /\ post'[i].at = at
  <1>1. post \in Seq(Post) /\ post[i] \in Post
    BY DEF ViewTypeOK, Posts
  <1>2. [post[i] EXCEPT !.at = at] \in Post
    BY <1>1 DEF Post
  <1>3. post' = [post EXCEPT ![i] = [post[i] EXCEPT !.at = at]]
    BY <1>1 DEF Moves, Posts
  <1> QED BY <1>1, <1>2, <1>3 DEF Posts, Post

\* A request that is answered or lost, but not to its page's knowledge.
LEMMA StillAwaited ==
    ASSUME ViewInv, NEW i \in Posts, NEW at \in PostAt, Moves(i, at), UNCHANGED pending,
           post[i].at \in Awaited => at \in Awaited
    PROVE  FlagHasRequest'
  <1> SUFFICES ASSUME NEW p \in Pages, pending[p]
               PROVE  \E k \in Posts' : post'[k].page = p /\ post'[k].at \in Awaited
    BY DEF FlagHasRequest, Awaited
  <1>1. PICK k \in Posts : post[k].page = p /\ post[k].at \in Awaited
    BY DEF ViewInv, FlagHasRequest, Awaited
  <1>2. k \in Posts' /\ post'[k].page = p /\ post'[k].at \in Awaited
    BY <1>1, MovesOn DEF ViewInv
  <1> QED BY <1>2

\* A request that ends for its page clears the flag, and leaves those of others.
LEMMA EndsClear ==
    ASSUME ViewInv, NEW i \in Posts, NEW at \in PostAt, NEW ok \in BOOLEAN, Moves(i, at),
           pending' = Settled(post[i].page, ok)
    PROVE  pending' \in [Pages -> BOOLEAN] /\ FlagHasRequest'
  <1>1. pending \in [Pages -> BOOLEAN]
    BY DEF ViewInv, ViewTypeOK
  <1>2. pending' \in [Pages -> BOOLEAN]
        /\ \A p \in Pages : pending'[p] => pending[p] /\ p # post[i].page
    BY <1>1 DEF Settled
  <1>3. ASSUME NEW p \in Pages, pending'[p]
        PROVE  \E k \in Posts' : post'[k].page = p /\ post'[k].at \in Awaited
    <2>1. PICK k \in Posts : post[k].page = p /\ post[k].at \in Awaited
      BY <1>2, <1>3 DEF ViewInv, FlagHasRequest, Awaited
    <2>2. k # i
      BY <1>2, <1>3, <2>1
    <2>3. k \in Posts' /\ post'[k].page = p /\ post'[k].at \in Awaited
      BY <2>1, <2>2, MovesOn DEF ViewInv
    <2> QED BY <2>3
  <1> QED BY <1>2, <1>3 DEF FlagHasRequest, Awaited

LEMMA ChooseKeeps == ASSUME ViewInv, NEW p \in Pages, NEW value \in Permissions, Choose(p, value)
                     PROVE  ViewInv'
  <1> DEFINE new == [page |-> p, value |-> value, before |-> shown[p], at |-> "sent"]
  <1>1. new \in Post /\ post \in Seq(Post) /\ post' = Append(post, new)
    BY DEF Choose, ViewInv, ViewTypeOK, Post, PostAt
  <1>2. /\ post' \in Seq(Post) /\ Posts = 1..Len(post) /\ Posts' = 1..(Len(post) + 1)
        /\ \A k \in Posts : post'[k] = post[k]
        /\ post'[Len(post) + 1] = new
    <2> HIDE DEF new
    <2> QED BY <1>1 DEF Posts
  <1>3. ViewTypeOK'
    BY <1>2 DEF Choose, ViewInv, ViewTypeOK
  <1>4. FlagHasRequest'
    <2> SUFFICES ASSUME NEW q \in Pages, pending'[q]
                 PROVE  \E k \in Posts' : post'[k].page = q /\ post'[k].at \in Awaited
      BY DEF FlagHasRequest, Awaited
    <2>1. Len(post) \in Nat
      BY <1>1
    <2>2. CASE q = p
      <3>1. Len(post) + 1 \in Posts'
        BY <1>2, <2>1
      <3>2. post'[Len(post) + 1].page = q /\ post'[Len(post) + 1].at \in Awaited
        BY <1>2, <2>2 DEF Awaited
      <3> QED BY <3>1, <3>2
    <2>3. CASE q # p
      <3>1. pending[q]
        BY <2>3 DEF Choose, ViewInv, ViewTypeOK
      <3>2. PICK k \in Posts : post[k].page = q /\ post[k].at \in Awaited
        BY <3>1 DEF ViewInv, FlagHasRequest, Awaited
      <3>3. k \in Posts' /\ post'[k] = post[k]
        BY <1>2, <2>1, <3>2
      <3> QED BY <3>2, <3>3
    <2> QED BY <2>2, <2>3
  <1> QED BY <1>3, <1>4 DEF ViewInv

LEMMA LoadPageKeeps == ASSUME ViewInv, NEW p \in Pages, LoadPage(p) PROVE ViewInv'
  <1>1. post \in Seq(Post) /\ post' \in Seq(Post) /\ Posts' = Posts
        /\ \A k \in Posts : post[k].page # p => post'[k] = post[k]
    <2>1. post \in Seq(Post) /\ Posts = 1..Len(post) /\ Len(post) \in Nat
      BY DEF ViewInv, ViewTypeOK, Posts
    <2>2. \A k \in Posts : post[k] \in Post
      BY <2>1
    <2>3. \A k \in Posts : [post[k] EXCEPT !.at =
             IF post[k].at \in {"sent", "stray"} THEN "stray" ELSE "over"] \in Post
      BY <2>2 DEF Post, PostAt
    <2>4. post' \in [1..Len(post) -> Post]
      BY <2>1, <2>2, <2>3 DEF LoadPage
    <2>5. post' \in Seq(Post) /\ Posts' = Posts
      BY <2>1, <2>4 DEF Posts
    <2> QED BY <2>1, <2>5 DEF LoadPage
  <1>2. ViewTypeOK'
    BY <1>1 DEF LoadPage, ViewInv, ViewTypeOK
  <1>3. FlagHasRequest'
    <2> SUFFICES ASSUME NEW q \in Pages, pending'[q]
                 PROVE  \E k \in Posts' : post'[k].page = q /\ post'[k].at \in Awaited
      BY DEF FlagHasRequest, Awaited
    <2>1. q # p /\ pending[q]
      BY DEF LoadPage, ViewInv, ViewTypeOK
    <2>2. PICK k \in Posts : post[k].page = q /\ post[k].at \in Awaited
      BY <2>1 DEF ViewInv, FlagHasRequest, Awaited
    <2> QED BY <1>1, <2>1, <2>2
  <1> QED BY <1>2, <1>3 DEF ViewInv

LEMMA PostKeeps == ASSUME ViewInv, NEW i \in Posts, PostEnds(i) PROVE ViewInv'
  <1>1. post[i] \in Post
    BY DEF ViewInv, ViewTypeOK, Posts
  <1>2. post[i].page \in Pages /\ post[i].value \in Permissions /\ post[i].before \in Permissions
    BY <1>1 DEF Post
  <1> USE DEF ViewInv, PostAt, Awaited
  <1>3. CASE Store(i)
    <2>1. PICK at \in PostAt : Moves(i, at) /\ (post[i].at \in Awaited => at \in Awaited)
      BY <1>3 DEF Store
    <2>2. FlagHasRequest'
      BY <1>3, <2>1, StillAwaited DEF Store
    <2>3. ViewTypeOK'
      BY <1>2, <1>3, <2>1, MovesOn DEF Store, ViewTypeOK
    <2> QED BY <2>2, <2>3
  <1>4. CASE Refused(i)
    <2>1. FlagHasRequest'
      BY <1>4, StillAwaited DEF Refused
    <2>2. ViewTypeOK'
      BY <1>4, MovesOn, MaxLossesAssumption DEF Refused, Lose, ViewTypeOK
    <2> QED BY <2>1, <2>2
  <1>5. CASE Confirmed(i)
    <2>1. pending' \in [Pages -> BOOLEAN] /\ FlagHasRequest'
      BY <1>5, EndsClear DEF Confirmed
    <2>2. ViewTypeOK'
      BY <1>5, <2>1, MovesOn DEF Confirmed, ViewTypeOK
    <2> QED BY <2>1, <2>2
  <1>6. ASSUME NEW at \in PostAt, TakenBack(i, at), losses' \in 0..MaxLosses
        PROVE  ViewInv'
    <2>1. pending' \in [Pages -> BOOLEAN] /\ FlagHasRequest'
      BY <1>6, EndsClear DEF TakenBack
    <2>2. ViewTypeOK'
      BY <1>2, <1>6, <2>1, MovesOn DEF TakenBack, ViewTypeOK
    <2> QED BY <2>1, <2>2
  <1>7. CASE RefusalShown(i)
    BY <1>6, <1>7 DEF RefusalShown, ViewTypeOK
  <1>8. CASE ConnectionLost(i)
    <2>1. losses' \in 0..MaxLosses
      BY <1>8, MaxLossesAssumption DEF ConnectionLost, Lose, ViewTypeOK
    <2> QED BY <1>6, <1>8, <2>1 DEF ConnectionLost
  <1> QED BY <1>3, <1>4, <1>5, <1>7, <1>8 DEF PostEnds

LEMMA ViewStep == ViewInv /\ [ViewNext]_viewVars => ViewInv'
  <1> SUFFICES ASSUME ViewInv, [ViewNext]_viewVars PROVE ViewInv'
    OBVIOUS
  <1>1. ASSUME UNCHANGED <<post, pending, setting>>,
               shown' \in [Pages -> Permissions \cup {Unset}],
               snapshot' \in [Pages -> Permissions \cup {Unset}],
               losses' \in 0..MaxLosses
        PROVE  ViewInv'
    BY <1>1 DEF ViewInv, ViewTypeOK, FlagHasRequest, Posts
  <1>2. ASSUME NEW p \in Pages, ReadSetting(p) PROVE ViewInv'
    BY <1>1, <1>2 DEF ReadSetting, ViewInv, ViewTypeOK
  <1>3. ASSUME NEW p \in Pages, TakeSnapshot(p) PROVE ViewInv'
    BY <1>1, <1>3 DEF TakeSnapshot, ViewInv, ViewTypeOK
  <1>4. ASSUME NEW p \in Pages, SnapshotLost(p) PROVE ViewInv'
    BY <1>1, <1>4, MaxLossesAssumption DEF SnapshotLost, Lose, ViewInv, ViewTypeOK
  <1>5. CASE UNCHANGED viewVars
    BY <1>1, <1>5 DEF viewVars, ViewInv, ViewTypeOK
  <1> QED BY <1>2, <1>3, <1>4, <1>5, ChooseKeeps, LoadPageKeeps, PostKeeps DEF ViewNext

LEMMA ViewBegins == ViewInit => ViewInv
  BY MaxLossesAssumption DEF ViewInit, ViewInv, ViewTypeOK, FlagHasRequest, Posts

-----------------------------------------------------------------------------
\* The state of the setting and of its controls on the pages keeps its types.
THEOREM ViewTypeCorrect == ViewSpec => []ViewTypeOK
  <1>1. ViewInv => ViewTypeOK
    BY DEF ViewInv
  <1> QED BY <1>1, ViewBegins, ViewStep, PTL DEF ViewSpec

\* However many choices, refusals, lost connections and reloads there are, on
\* any number of pages: a page that ignores the server's answers waits for a
\* request of its own, whose end lets them in again.
THEOREM FlagIsCleared == ViewSpec => []FlagHasRequest
  <1>1. ViewInv => FlagHasRequest
    BY DEF ViewInv
  <1> QED BY <1>1, ViewBegins, ViewStep, PTL DEF ViewSpec
=============================================================================
