---------------------------- MODULE SchemaProofs -----------------------------
(***************************************************************************)
(* Theorems about Schema, for any number of further commands and faults.   *)
(***************************************************************************)
EXTENDS Schema, SequenceTheorems, TLAPS

Outcomes  == {"created", "started", "healthy", "completed", "failed"}
Revisions == 0 .. HeadRevision
Objects   == ObjectsAt(HeadRevision) \cup {"nameless"}
Steps     == ({"create", "drop"} \X Objects) \cup ({"stamp"} \X Revisions)
Versions  == [revision : Revisions, objects : SUBSET Objects]

\* Every container has an outcome, every version a revision.
TypeOK ==
  /\ state \in [Containers -> Outcomes]
  /\ db \in Versions /\ work \in Versions
  /\ rows \in BOOLEAN
  /\ todo \in Seq(Steps)
  /\ command \in {"none", "upgrade", "downgrade"}

-----------------------------------------------------------------------------
(***************************************************************************)
(* The open transaction.                                                   *)
(***************************************************************************)
\* What a plan creates or drops, and what is still to be created or dropped.
Named(plan, verb) == {plan[k][2] : k \in {k \in DOMAIN plan : plan[k][1] = verb}}
Left(verb) == Named(todo, verb)

\* Run to its end, the transaction leads to revision r with all of its objects.
LeadsTo(r) ==
  /\ (work.objects \cup Left("create")) \ Left("drop") = ObjectsAt(r)
  /\ IF todo = << >> THEN work.revision = r
                     ELSE todo[Len(todo)] = <<"stamp", r>>

\* An upgrade only creates and leads to the head.  A downgrade only drops and
\* leads one down, but from the head it does not get past its first step.
Underway ==
  /\ command = "none" => todo = << >>
  /\ command = "upgrade" => LeadsTo(HeadRevision) /\ Left("drop") = {}
  /\ command = "downgrade" =>
       /\ db.revision > 0 /\ Left("create") = {}
       /\ IF db.revision = HeadRevision
          THEN work = db /\ todo # << >> /\ todo[1] = <<"drop", "nameless">>
          ELSE LeadsTo(db.revision - 1)

\* What needs the tables, and migrate when it has completed, find the head.
Services == {"backend", "celery_worker", "ws"}

AtHead ==
  \/ db.revision = HeadRevision
  \/ /\ state["migrate"] # "completed"
     /\ \A c \in Services : ~Running(c)

SchemaInv ==
  /\ TypeOK
  /\ db.objects = ObjectsAt(db.revision)
  /\ Underway
  /\ AtHead

-----------------------------------------------------------------------------
(***************************************************************************)
(* The plans of the revisions.                                             *)
(***************************************************************************)
CreatedBy(r) == {Creates[r][k] : k \in DOMAIN Creates[r]}

LEMMA WhatIsCreated ==
  /\ ObjectsAt(0) = {}
  /\ ObjectsAt(1) = CreatedBy(1)
  /\ ObjectsAt(2) = CreatedBy(1) \cup CreatedBy(2)
  /\ ObjectsAt(3) = CreatedBy(1) \cup CreatedBy(2) \cup CreatedBy(3)
<1>1. /\ 1 .. 0 = {} /\ 1 .. 1 = {1} /\ 1 .. 2 = {1, 2} /\ 1 .. 3 = {1, 2, 3}
  OBVIOUS
<1>2. \A r : ObjectsAt(r) = UNION {CreatedBy(n) : n \in 1 .. r}
  BY Zenon DEF ObjectsAt, CreatedBy
<1> HIDE DEF CreatedBy
<1> QED  BY <1>1, <1>2

LEMMA WhatIsNamed ==
  /\ CreatedBy(1) = {"generations"}
  /\ CreatedBy(2) = {"users", "ix_users_email"}
  /\ CreatedBy(3) = {"user_id", "ix_generations_user_id", "user_fk"}
<1>1. CreatedBy(1) = {"generations"}
  BY DEF CreatedBy, Creates
<1>2. CreatedBy(2) = {"users", "ix_users_email"}
  BY DEF CreatedBy, Creates
<1>3. CreatedBy(3) = {"user_id", "ix_generations_user_id", "user_fk"}
  BY DEF CreatedBy, Creates
<1> QED  BY <1>1, <1>2, <1>3

LEMMA ObjectsGrow ==
  ASSUME NEW r \in Revisions
  PROVE  ObjectsAt(r) \subseteq Objects
BY WhatIsCreated DEF Revisions, HeadRevision, Objects

LEMMA NamedConcat ==
  ASSUME NEW p \in Seq(Steps), NEW q \in Seq(Steps), NEW verb
  PROVE  Named(p \o q, verb) = Named(p, verb) \cup Named(q, verb)
<1>1. /\ p \o q \in Seq(Steps) /\ Len(p \o q) = Len(p) + Len(q)
      /\ \A k \in 1 .. Len(p) : (p \o q)[k] = p[k]
      /\ \A k \in 1 .. Len(q) : (p \o q)[Len(p) + k] = q[k]
      /\ Len(p) \in Nat /\ Len(q) \in Nat
  BY ConcatProperties, LenProperties
<1>2. /\ DOMAIN p = 1 .. Len(p) /\ DOMAIN q = 1 .. Len(q)
      /\ DOMAIN (p \o q) = 1 .. Len(p) + Len(q)
  BY <1>1, LenProperties
<1>3. ASSUME NEW o \in Named(p \o q, verb)
      PROVE  o \in Named(p, verb) \cup Named(q, verb)
  <2>1. PICK k \in DOMAIN (p \o q) : (p \o q)[k][1] = verb /\ (p \o q)[k][2] = o
    BY DEF Named
  <2>2. CASE k <= Len(p)
    <3>1. k \in DOMAIN p /\ p[k][1] = verb /\ p[k][2] = o
      BY <1>1, <1>2, <2>1, <2>2
    <3> QED  BY <3>1 DEF Named
  <2>3. CASE ~(k <= Len(p))
    <3>1. k - Len(p) \in 1 .. Len(q) /\ k = Len(p) + (k - Len(p))
      BY <1>1, <1>2, <2>1, <2>3
    <3>2. (p \o q)[k] = q[k - Len(p)]
      BY <1>1, <3>1
    <3> QED  BY <1>2, <2>1, <3>1, <3>2 DEF Named
  <2> QED  BY <2>2, <2>3
<1>4. ASSUME NEW o \in Named(p, verb) PROVE o \in Named(p \o q, verb)
  <2>1. PICK k \in DOMAIN p : p[k][1] = verb /\ p[k][2] = o
    BY DEF Named
  <2>2. k \in DOMAIN (p \o q) /\ (p \o q)[k] = p[k]
    BY <1>1, <1>2
  <2> QED  BY <2>1, <2>2 DEF Named
<1>5. ASSUME NEW o \in Named(q, verb) PROVE o \in Named(p \o q, verb)
  <2>1. PICK k \in DOMAIN q : q[k][1] = verb /\ q[k][2] = o
    BY DEF Named
  <2>2. Len(p) + k \in DOMAIN (p \o q) /\ (p \o q)[Len(p) + k] = q[k]
    BY <1>1, <1>2
  <2> QED  BY <2>1, <2>2 DEF Named
<1> QED  BY <1>3, <1>4, <1>5

LEMMA NamedTail ==
  ASSUME NEW p \in Seq(Steps), p # << >>, NEW verb
  PROVE  Named(p, verb) = Named(Tail(p), verb)
                            \cup (IF p[1][1] = verb THEN {p[1][2]} ELSE {})
<1>1. /\ Len(p) \in Nat /\ DOMAIN p = 1 .. Len(p) /\ 1 \in DOMAIN p
      /\ DOMAIN Tail(p) = 1 .. Len(p) - 1
      /\ \A k \in 1 .. Len(p) - 1 : Tail(p)[k] = p[k + 1]
  BY LenProperties, EmptySeq, HeadTailProperties
<1>2. ASSUME NEW o \in Named(p, verb)
      PROVE  o \in Named(Tail(p), verb)
                     \cup (IF p[1][1] = verb THEN {p[1][2]} ELSE {})
  <2>1. PICK k \in DOMAIN p : p[k][1] = verb /\ p[k][2] = o
    BY DEF Named
  <2>2. CASE k # 1
    <3>1. k - 1 \in DOMAIN Tail(p) /\ Tail(p)[k - 1] = p[k]
      BY <1>1, <2>2
    <3> QED  BY <2>1, <3>1 DEF Named
  <2> QED  BY <2>1, <2>2
<1>3. ASSUME NEW o \in Named(Tail(p), verb) PROVE o \in Named(p, verb)
  <2>1. PICK k \in DOMAIN Tail(p) : Tail(p)[k][1] = verb /\ Tail(p)[k][2] = o
    BY DEF Named
  <2>2. k + 1 \in DOMAIN p /\ p[k + 1] = Tail(p)[k]
    BY <1>1
  <2> QED  BY <2>1, <2>2 DEF Named
<1>4. p[1][1] = verb => p[1][2] \in Named(p, verb)
  BY <1>1 DEF Named
<1> QED  BY <1>2, <1>3, <1>4

\* The plan of one revision: its objects, then the stamp.
LEMMA PlanOf ==
  ASSUME NEW verb \in {"create", "drop"}, NEW objects \in Seq(Objects),
         NEW r \in Revisions
  PROVE  LET plan == Each(verb, objects) \o << <<"stamp", r>> >>
         IN  /\ plan \in Seq(Steps) /\ plan # << >>
             /\ plan[Len(plan)] = <<"stamp", r>>
             /\ Named(plan, verb) = {objects[k] : k \in DOMAIN objects}
             /\ \A other \in {"create", "drop"} \ {verb} : Named(plan, other) = {}
             /\ objects # << >> => plan[1] = <<verb, objects[1]>>
<1> DEFINE each  == Each(verb, objects)
           stamp == << <<"stamp", r>> >>
           plan  == each \o stamp
<1>1. /\ Len(objects) \in Nat /\ DOMAIN objects = 1 .. Len(objects)
      /\ \A k \in DOMAIN objects : objects[k] \in Objects
  BY LenProperties
<1>2. each = [k \in 1 .. Len(objects) |-> <<verb, objects[k]>>]
  BY <1>1 DEF Each
<1>3. \A k \in 1 .. Len(objects) : <<verb, objects[k]>> \in Steps
  BY <1>1 DEF Steps
<1> HIDE DEF each
<1>4. each \in Seq(Steps) /\ Len(each) = Len(objects)
  BY <1>1, <1>2, <1>3
<1>5. stamp \in Seq(Steps) /\ Len(stamp) = 1 /\ stamp[1] = <<"stamp", r>>
  BY DEF Steps
<1> HIDE DEF stamp
<1>6. /\ plan \in Seq(Steps) /\ Len(plan) = Len(objects) + 1
      /\ plan[Len(plan)] = <<"stamp", r>>
      /\ objects # << >> => plan[1] = <<verb, objects[1]>>
  <2>1. /\ plan \in Seq(Steps) /\ Len(plan) = Len(each) + Len(stamp)
        /\ \A k \in 1 .. Len(each) : plan[k] = each[k]
        /\ \A k \in 1 .. Len(stamp) : plan[Len(each) + k] = stamp[k]
    <3>1. each \in Seq(Steps) /\ stamp \in Seq(Steps)
      BY <1>4, <1>5
    <3>2. Len(each) \in Nat /\ Len(stamp) \in Nat
      BY <3>1, LenProperties
    <3> QED  BY <3>1, <3>2, ConcatProperties
  <2>2. Len(plan) = Len(objects) + 1 /\ 1 \in 1 .. Len(stamp)
    BY <1>4, <1>5, <2>1
  <2>3. plan[Len(plan)] = <<"stamp", r>>
    BY <1>4, <1>5, <2>1, <2>2
  <2>4. objects # << >> => 1 \in 1 .. Len(objects)
    BY <1>1, EmptySeq
  <2>5. objects # << >> => plan[1] = <<verb, objects[1]>>
    BY <1>2, <1>4, <2>1, <2>4
  <2> QED  BY <2>1, <2>2, <2>3, <2>5
<1>7. ASSUME NEW v \in {"create", "drop"} PROVE Named(stamp, v) = {}
  <2>1. \A k \in DOMAIN stamp : stamp[k][1] = "stamp"
    BY <1>5, LenProperties
  <2> QED  BY <2>1 DEF Named
<1>8. Named(each, verb) = {objects[k] : k \in DOMAIN objects}
  BY <1>1, <1>2 DEF Named
<1>9. ASSUME NEW other \in {"create", "drop"} \ {verb} PROVE Named(each, other) = {}
  BY <1>2 DEF Named
<1>10. ASSUME NEW v PROVE Named(plan, v) = Named(each, v) \cup Named(stamp, v)
  BY <1>4, <1>5, NamedConcat
<1> HIDE DEF plan
<1>11. plan # << >>
  BY <1>1, <1>6, EmptySeq
<1> QED  BY <1>6, <1>7, <1>8, <1>9, <1>10, <1>11 DEF plan, each, stamp

LEMMA UpgradeOf ==
  ASSUME NEW r \in Revisions \ {0}
  PROVE  /\ Upgrade(r) \in Seq(Steps) /\ Upgrade(r) # << >>
         /\ Upgrade(r)[Len(Upgrade(r))] = <<"stamp", r>>
         /\ Named(Upgrade(r), "create") = CreatedBy(r)
         /\ Named(Upgrade(r), "drop") = {}
<1>1. Creates[r] \in Seq(Objects)
  <2>1. Objects = {"generations", "users", "ix_users_email", "user_id",
                   "ix_generations_user_id", "user_fk", "nameless"}
    BY WhatIsCreated, WhatIsNamed DEF Objects, HeadRevision
  <2> HIDE DEF Objects
  <2>2. CASE r = 1
    BY <2>1, <2>2 DEF Creates
  <2>3. CASE r = 2
    BY <2>1, <2>3 DEF Creates
  <2>4. CASE r = 3
    BY <2>1, <2>4 DEF Creates
  <2> QED  BY <2>2, <2>3, <2>4 DEF Revisions, HeadRevision
<1> QED  BY <1>1, PlanOf DEF Upgrade, CreatedBy

LEMMA DowngradeOf ==
  ASSUME NEW r \in Revisions \ {0}
  PROVE  /\ Downgrade(r) \in Seq(Steps) /\ Downgrade(r) # << >>
         /\ Downgrade(r)[Len(Downgrade(r))] = <<"stamp", r - 1>>
         /\ Named(Downgrade(r), "create") = {}
         /\ r # HeadRevision =>
              /\ Named(Downgrade(r), "drop") \subseteq ObjectsAt(r)
              /\ ObjectsAt(r) \ Named(Downgrade(r), "drop") = ObjectsAt(r - 1)
         /\ r = HeadRevision => Downgrade(r)[1] = <<"drop", "nameless">>
<1> DEFINE dropped == {Drops[r][k] : k \in DOMAIN Drops[r]}
<1>1. Objects = {"generations", "users", "ix_users_email", "user_id",
                 "ix_generations_user_id", "user_fk", "nameless"}
  BY WhatIsCreated, WhatIsNamed DEF Objects, HeadRevision
<1>2. r \in {1, 2, 3} /\ HeadRevision = 3 /\ r - 1 \in Revisions
  BY DEF Revisions, HeadRevision
<1> HIDE DEF Objects
<1>3. Drops[r] \in Seq(Objects) /\ Drops[r] # << >>
  <2>1. CASE r = 1
    BY <1>1, <2>1 DEF Drops
  <2>2. CASE r = 2
    BY <1>1, <2>2 DEF Drops
  <2>3. CASE r = 3
    BY <1>1, <2>3 DEF Drops
  <2> QED  BY <1>2, <2>1, <2>2, <2>3
<1>4. r # HeadRevision => /\ dropped \subseteq ObjectsAt(r)
                          /\ ObjectsAt(r) \ dropped = ObjectsAt(r - 1)
  <2>1. CASE r = 1
    <3>1. dropped = {"generations"}
      BY <2>1 DEF Drops
    <3> QED  BY <2>1, <3>1, WhatIsCreated, WhatIsNamed
  <2>2. CASE r = 2
    <3>1. dropped = {"users", "ix_users_email"}
      BY <2>2 DEF Drops
    <3> HIDE DEF dropped
    <3> QED  BY <2>2, <3>1, WhatIsCreated, WhatIsNamed
  <2> QED  BY <1>2, <2>1, <2>2
<1>5. r = HeadRevision => Drops[r][1] = "nameless"
  BY <1>2 DEF Drops
<1> DEFINE plan == Each("drop", Drops[r]) \o << <<"stamp", r - 1>> >>
<1>6. Downgrade(r) = plan
  BY DEF Downgrade
<1>7. /\ plan \in Seq(Steps) /\ plan # << >>
      /\ plan[Len(plan)] = <<"stamp", r - 1>>
      /\ Named(plan, "drop") = dropped
      /\ \A other \in {"create", "drop"} \ {"drop"} : Named(plan, other) = {}
      /\ plan[1] = <<"drop", Drops[r][1]>>
  BY <1>2, <1>3, PlanOf, ZenonT(60)
<1> HIDE DEF plan, dropped
<1>8. Named(plan, "create") = {}
  BY <1>7
<1> QED  BY <1>4, <1>5, <1>6, <1>7, <1>8

\* The upgrade from any revision creates what the head has more and stamps it last.
LEMMA UpgradeToHeadOf ==
  ASSUME NEW r \in Revisions
  PROVE  LET plan == UpgradeToHead(r)
         IN  /\ plan \in Seq(Steps)
             /\ ObjectsAt(r) \cup Named(plan, "create") = ObjectsAt(HeadRevision)
             /\ ObjectsAt(r) \cap Named(plan, "create") = {}
             /\ Named(plan, "drop") = {}
             /\ IF r = HeadRevision THEN plan = << >>
                ELSE plan # << >> /\ plan[Len(plan)] = <<"stamp", HeadRevision>>
<1> DEFINE From(n) == IF n > r THEN Upgrade(n) ELSE << >>
           first == From(1) \o From(2)
           plan  == first \o From(3)
<1>1. UpgradeToHead(r) = plan
  BY DEF UpgradeToHead
<1>2. r \in 0 .. 3 /\ HeadRevision = 3
  BY DEF Revisions, HeadRevision
<1>3. ASSUME NEW n \in Revisions \ {0}
      PROVE  /\ From(n) \in Seq(Steps)
             /\ Named(From(n), "create") = IF n > r THEN CreatedBy(n) ELSE {}
             /\ Named(From(n), "drop") = {}
  <2>1. CASE n > r
    BY <2>1, UpgradeOf
  <2>2. CASE ~(n > r)
    <3>1. From(n) = << >> /\ << >> \in Seq(Steps)
      BY <2>2
    <3>2. DOMAIN From(n) = {}
      BY <3>1
    <3>3. \A verb : Named(From(n), verb) = {}
      BY <3>2 DEF Named
    <3> QED  BY <2>2, <3>1, <3>3
  <2> QED  BY <2>1, <2>2
<1>4. {1, 2, 3} \subseteq Revisions \ {0}
  BY DEF Revisions, HeadRevision
<1> HIDE DEF From
<1>5. /\ first \in Seq(Steps)
      /\ \A verb : Named(first, verb) = Named(From(1), verb) \cup Named(From(2), verb)
  BY <1>3, <1>4, NamedConcat, ConcatProperties
<1> HIDE DEF first
<1>6. /\ plan \in Seq(Steps)
      /\ \A verb : Named(plan, verb) = Named(first, verb) \cup Named(From(3), verb)
  BY <1>3, <1>4, <1>5, NamedConcat, ConcatProperties
<1> HIDE DEF plan
<1>7. Named(plan, "drop") = {}
  BY <1>3, <1>4, <1>5, <1>6
<1>8. /\ ObjectsAt(r) \cup Named(plan, "create") = ObjectsAt(HeadRevision)
      /\ ObjectsAt(r) \cap Named(plan, "create") = {}
  <2>1. Named(plan, "create") = (IF 1 > r THEN CreatedBy(1) ELSE {})
                                  \cup (IF 2 > r THEN CreatedBy(2) ELSE {})
                                  \cup (IF 3 > r THEN CreatedBy(3) ELSE {})
    BY <1>3, <1>4, <1>5, <1>6
  <2>2. CASE r = 0
    BY <1>2, <2>1, <2>2, WhatIsCreated
  <2>3. CASE r = 1
    <3> USE WhatIsCreated, WhatIsNamed
    <3>1. Named(plan, "create") = CreatedBy(2) \cup CreatedBy(3)
      BY <1>2, <2>1, <2>3
    <3> QED  BY <1>2, <2>1, <2>3, <3>1
  <2>4. CASE r = 2
    <3> USE WhatIsCreated, WhatIsNamed
    <3>1. Named(plan, "create") = CreatedBy(3)
      BY <1>2, <2>1, <2>4
    <3> QED  BY <1>2, <2>1, <2>4, <3>1
  <2>5. CASE r = 3
    BY <1>2, <2>1, <2>5, WhatIsCreated
  <2> QED  BY <1>2, <2>2, <2>3, <2>4, <2>5
<1>9. r # 3 => plan # << >> /\ plan[Len(plan)] = <<"stamp", 3>>
  <2> SUFFICES ASSUME r # 3 PROVE plan # << >> /\ plan[Len(plan)] = <<"stamp", 3>>
    OBVIOUS
  <2> DEFINE last == From(3)
  <2>1. last = Upgrade(3)
    BY <1>2 DEF From
  <2>2. /\ last \in Seq(Steps) /\ last # << >> /\ last[Len(last)] = <<"stamp", 3>>
    BY <1>4, <2>1, UpgradeOf
  <2> HIDE DEF last
  <2>3. /\ Len(first) \in Nat /\ Len(last) \in Nat /\ Len(last) # 0
        /\ Len(last) \in 1 .. Len(last)
    BY <1>5, <2>2, LenProperties, EmptySeq
  <2>4. /\ plan = first \o last /\ Len(plan) = Len(first) + Len(last)
        /\ \A k \in 1 .. Len(last) : plan[Len(first) + k] = last[k]
    BY <1>5, <2>2, <2>3, ConcatProperties DEF plan, last
  <2>5. plan[Len(plan)] = last[Len(last)]
    BY <2>3, <2>4
  <2>6. plan # << >>
    BY <1>6, <2>3, <2>4, EmptySeq
  <2> QED  BY <2>2, <2>5, <2>6
<1>10. r = 3 => plan = << >>
  <2> SUFFICES ASSUME r = 3 PROVE plan = << >>
    OBVIOUS
  <2>1. From(1) = << >> /\ From(2) = << >> /\ From(3) = << >>
    BY DEF From
  <2> QED  BY <2>1 DEF plan, first
<1> QED  BY <1>1, <1>2, <1>6, <1>7, <1>8, <1>9, <1>10

-----------------------------------------------------------------------------
(***************************************************************************)
(* The steps.                                                              *)
(***************************************************************************)
LEMMA InitInv == Init => SchemaInv
<1> SUFFICES ASSUME Init PROVE SchemaInv
  OBVIOUS
<1>1. PICK r \in Revisions : db = [revision |-> r, objects |-> ObjectsAt(r)]
  BY DEF Init, Revisions
<1>2. db \in Versions /\ work = db
  BY <1>1, ObjectsGrow DEF Init, Versions
<1>3. rows \in BOOLEAN
  BY DEF Init
<1>4. TypeOK
  BY <1>2, <1>3 DEF Init, TypeOK, Outcomes
<1>5. Underway
  BY DEF Init, Underway
<1>6. AtHead
  BY DEF Init, AtHead, Running, Containers, DependsOn, Services
<1> QED  BY <1>1, <1>4, <1>5, <1>6 DEF SchemaInv

\* While only containers change, one that needs the tables may start only after a
\* migration that has completed.
LEMMA OneBecomes ==
  ASSUME SchemaInv, NEW c \in Containers, NEW s \in Outcomes,
         Become(c, s), UNCHANGED alembic,
         s = "completed" => db.revision = HeadRevision,
         s \in {"started", "healthy"} /\ c \in Services => db.revision = HeadRevision
  PROVE  SchemaInv'
<1>1. state' = [state EXCEPT ![c] = s] /\ state \in [Containers -> Outcomes]
  BY DEF Become, SchemaInv, TypeOK
<1>2. TypeOK'
  BY <1>1 DEF SchemaInv, TypeOK, alembic
<1>3. Underway'
  BY DEF SchemaInv, Underway, LeadsTo, Left, alembic
<1>4. AtHead'
  <2>1. CASE db.revision = HeadRevision
    BY <2>1 DEF AtHead, alembic
  <2>2. CASE db.revision # HeadRevision
    <3>1. /\ state["migrate"] # "completed"
          /\ \A d \in Services : ~Running(d)
      BY <2>2 DEF SchemaInv, AtHead, Services
    <3>2. \A d \in Containers : state'[d] = IF d = c THEN s ELSE state[d]
      BY <1>1
    <3>3. "migrate" \in Containers /\ Services \subseteq Containers
      BY DEF Containers, DependsOn, Services
    <3>4. state'["migrate"] # "completed"
      BY <2>2, <3>1, <3>2, <3>3
    <3>5. \A d \in Services : ~Running(d)'
      BY <2>2, <3>1, <3>2, <3>3 DEF Running
    <3> QED  BY <3>4, <3>5 DEF AtHead, Services
  <2> QED  BY <2>1, <2>2
<1> QED  BY <1>2, <1>3, <1>4 DEF SchemaInv, alembic

\* What needs the tables has waited for the migration.
LEMMA ServiceWaits ==
  ASSUME SchemaInv, NEW c \in Services,
         \A need \in DependsOn[c] : Meets(need[1], need[2])
  PROVE  db.revision = HeadRevision
<1>1. <<"migrate", "completed">> \in DependsOn[c]
  BY DEF DependsOn, AfterMigrate, Services
<1>2. Meets("migrate", "completed")
  BY <1>1
<1>3. state["migrate"] = "completed"
  BY <1>2 DEF Meets
<1> QED  BY <1>3 DEF SchemaInv, AtHead

LEMMA ContainerStep ==
  ASSUME SchemaInv, NEW c \in Containers, Start(c) \/ Healthcheck(c) \/ Fail(c)
  PROVE  SchemaInv'
<1>1. CASE Start(c)
  <2>1. c \in Services => db.revision = HeadRevision
    BY <1>1, ServiceWaits DEF Start
  <2> QED  BY <1>1, <2>1, OneBecomes DEF Start, Outcomes
<1>2. CASE Healthcheck(c)
  <2>1. c \notin Services
    BY <1>2 DEF Healthcheck, Checked, Services
  <2> QED  BY <1>2, <2>1, OneBecomes DEF Healthcheck, Outcomes
<1>3. CASE Fail(c)
  <2>1. CASE c = "postgres" \/ (c = "migrate" /\ command = "upgrade")
    <3>1. /\ command' = "none" /\ todo' = << >> /\ work' = db
          /\ UNCHANGED <<db, rows>>
          /\ state' = [state EXCEPT ![c] = "failed",
                         !["migrate"] = IF Running("migrate") THEN "failed" ELSE @]
      BY <1>3, <2>1 DEF Fail
    <3>2. /\ state \in [Containers -> Outcomes] /\ "failed" \in Outcomes
          /\ "migrate" \in Containers /\ Services \subseteq Containers
      BY DEF SchemaInv, TypeOK, Outcomes, Containers, DependsOn, Services
    <3>3. /\ state' \in [Containers -> Outcomes]
          /\ \A d \in Containers : state'[d] = state[d] \/ state'[d] = "failed"
      BY <3>1, <3>2
    <3>4. TypeOK'
      BY <3>1, <3>3 DEF SchemaInv, TypeOK
    <3>5. Underway'
      BY <3>1 DEF Underway
    <3>6. AtHead'
      <4>1. state'["migrate"] = "completed" => state["migrate"] = "completed"
        BY <3>2, <3>3
      <4>2. \A d \in Services : Running(d)' => Running(d)
        BY <3>2, <3>3 DEF Running
      <4> QED  BY <3>1, <4>1, <4>2 DEF SchemaInv, AtHead
    <3> QED  BY <3>1, <3>4, <3>5, <3>6 DEF SchemaInv
  <2>2. CASE ~(c = "postgres" \/ (c = "migrate" /\ command = "upgrade"))
    <3>1. Become(c, "failed") /\ UNCHANGED alembic
      BY <1>3, <2>2 DEF Fail, alembic
    <3> QED  BY <3>1, OneBecomes DEF Outcomes
  <2> QED  BY <2>1, <2>2
<1> QED  BY <1>1, <1>2, <1>3

LEMMA UpStep ==
  ASSUME SchemaInv, Up
  PROVE  SchemaInv'
<1>1. /\ state' = [c \in Containers |-> IF Running(c) THEN state[c] ELSE "created"]
      /\ UNCHANGED alembic
  BY DEF Up
<1>2. state' \in [Containers -> Outcomes]
  BY <1>1 DEF SchemaInv, TypeOK, Outcomes
<1>3. TypeOK'
  BY <1>1, <1>2 DEF SchemaInv, TypeOK, alembic
<1>4. Underway'
  BY <1>1 DEF SchemaInv, Underway, LeadsTo, Left, alembic
<1>5. AtHead'
  <2>1. "migrate" \in Containers /\ Services \subseteq Containers
    BY DEF Containers, DependsOn, Services
  <2>2. state'["migrate"] # "completed"
    BY <1>1, <2>1 DEF Running
  <2>3. \A d \in Services : Running(d)' => Running(d)
    BY <1>1, <2>1 DEF Running
  <2> QED  BY <1>1, <2>2, <2>3 DEF SchemaInv, AtHead, alembic
<1> QED  BY <1>1, <1>3, <1>4, <1>5 DEF SchemaInv, alembic

\* An alembic process begins on what is committed.
LEMMA BeginStep ==
  ASSUME SchemaInv, Migrate \/ RunDowngrade
  PROVE  SchemaInv'
<1>0. /\ db \in Versions /\ db.revision \in Revisions
      /\ db.objects = ObjectsAt(db.revision)
  BY DEF SchemaInv, TypeOK, Versions
<1> DEFINE r == db.revision
<1>1. CASE Migrate
  <2>1. /\ command' = "upgrade" /\ work' = db /\ UNCHANGED <<db, rows, state>>
        /\ todo' = UpgradeToHead(r)
    BY <1>1 DEF Migrate, Begin
  <2> HIDE DEF r
  <2>2. /\ todo' \in Seq(Steps)
        /\ ObjectsAt(r) \cup Named(todo', "create") = ObjectsAt(HeadRevision)
        /\ Named(todo', "drop") = {}
        /\ IF todo' = << >> THEN r = HeadRevision
           ELSE todo'[Len(todo')] = <<"stamp", HeadRevision>>
    BY <1>0, <2>1, UpgradeToHeadOf DEF r
  <2>3. TypeOK'
    BY <2>1, <2>2 DEF SchemaInv, TypeOK
  <2>4. LeadsTo(HeadRevision)' /\ Left("drop")' = {}
    BY <1>0, <2>1, <2>2 DEF LeadsTo, Left, r
  <2>5. Underway'
    BY <2>1, <2>4 DEF Underway
  <2>6. AtHead'
    BY <2>1 DEF SchemaInv, AtHead, Running
  <2> QED  BY <1>0, <2>1, <2>3, <2>5, <2>6 DEF SchemaInv
<1>2. CASE RunDowngrade
  <2>1. /\ command' = "downgrade" /\ work' = db /\ UNCHANGED <<db, rows, state>>
        /\ todo' = Downgrade(r) /\ r > 0
    BY <1>2 DEF RunDowngrade, Begin
  <2>2. r \in Revisions \ {0}
    BY <1>0, <2>1
  <2> HIDE DEF r
  <2>3. /\ todo' \in Seq(Steps) /\ todo' # << >>
        /\ todo'[Len(todo')] = <<"stamp", r - 1>>
        /\ Named(todo', "create") = {}
        /\ r # HeadRevision => ObjectsAt(r) \ Named(todo', "drop")
                                 = ObjectsAt(r - 1)
        /\ r = HeadRevision => todo'[1] = <<"drop", "nameless">>
    BY <2>1, <2>2, DowngradeOf
  <2>4. TypeOK'
    BY <2>1, <2>3 DEF SchemaInv, TypeOK
  <2>5. r # HeadRevision => LeadsTo(db.revision - 1)'
    BY <1>0, <2>1, <2>3 DEF LeadsTo, Left, r
  <2>6. Underway'
    BY <2>1, <2>3, <2>5 DEF Underway, Left, r
  <2>7. AtHead'
    BY <2>1 DEF SchemaInv, AtHead, Running
  <2> QED  BY <1>0, <2>1, <2>4, <2>6, <2>7 DEF SchemaInv
<1> QED  BY <1>1, <1>2

\* From the head no downgrade gets anywhere.
LEMMA HeadStays ==
  ASSUME SchemaInv, command = "downgrade", db.revision = HeadRevision
  PROVE  todo # << >> /\ Raises(Head(todo))
<1>1. /\ work = db /\ todo # << >> /\ todo[1] = <<"drop", "nameless">>
      /\ db.objects = ObjectsAt(HeadRevision)
  BY DEF SchemaInv, Underway
<1>2. "nameless" \notin ObjectsAt(HeadRevision)
  BY WhatIsCreated, WhatIsNamed DEF HeadRevision
<1>3. Head(todo) = <<"drop", "nameless">>
  BY <1>1 DEF SchemaInv, TypeOK
<1> QED  BY <1>1, <1>2, <1>3 DEF Raises

\* A statement leaves the rest of the plan to lead where all of it led.
LEMMA ApplyLeads ==
  ASSUME SchemaInv, Apply, NEW r, LeadsTo(r),
         Left("create") = {} \/ Left("drop") = {}
  PROVE  LeadsTo(r)'
<1> DEFINE step == todo[1]
<1>1. /\ todo \in Seq(Steps) /\ todo # << >> /\ todo' = Tail(todo)
      /\ Head(todo) = step /\ work' = Done(step)
      /\ Len(todo) \in Nat /\ Len(todo) # 0
      /\ Len(todo') = Len(todo) - 1 /\ todo' \in Seq(Steps)
      /\ \A k \in 1 .. Len(todo) - 1 : todo'[k] = todo[k + 1]
  BY LenProperties, EmptySeq, HeadTailProperties DEF SchemaInv, TypeOK, Apply
<1>2. step \in Steps /\ work \in Versions
  BY <1>1, LenProperties, EmptySeq DEF SchemaInv, TypeOK
<1>3. \A verb : Left(verb) =
        Left(verb)' \cup (IF step[1] = verb THEN {step[2]} ELSE {})
  BY <1>1, NamedTail DEF Left
<1>4. todo[Len(todo)] = <<"stamp", r>>
  BY <1>1 DEF LeadsTo
<1>5. CASE todo' = << >>
  <2>0. Len(todo') = 0
    BY <1>5
  <2>1. Len(todo) = 1
    BY <1>1, <2>0
  <2>2. step = <<"stamp", r>>
    BY <1>4, <2>1
  <2>3. work'.revision = r /\ work'.objects = work.objects
    BY <1>1, <1>2, <2>2 DEF Done, Versions
  <2>4. step[1] # "create" /\ step[1] # "drop"
    BY <2>2
  <2>5. Left("create")' = Left("create") /\ Left("drop")' = Left("drop")
    BY <1>3, <2>4
  <2> QED  BY <1>5, <2>3, <2>5 DEF LeadsTo
<1>6. CASE todo' # << >>
  <2>1. Len(todo') # 0
    BY <1>1, <1>6, EmptySeq
  <2>2. todo'[Len(todo')] = todo[Len(todo)]
    BY <1>1, <2>1
  <2>3. (work'.objects \cup Left("create")') \ Left("drop")'
           = (work.objects \cup Left("create")) \ Left("drop")
    <3>1. CASE step[1] = "create"
      <4>1. work'.objects = work.objects \cup {step[2]}
        BY <1>1, <1>2, <3>1 DEF Done, Versions
      <4>2. Left("create") = Left("create")' \cup {step[2]}
        BY <1>3, <3>1
      <4>3. Left("drop") = Left("drop")'
        BY <1>3, <3>1
      <4> QED  BY <4>1, <4>2, <4>3
    <3>2. CASE step[1] = "drop"
      <4>1. work'.objects = work.objects \ {step[2]}
        BY <1>1, <1>2, <3>2 DEF Done, Versions
      <4>2. Left("drop") = Left("drop")' \cup {step[2]}
        BY <1>3, <3>2
      <4>3. Left("create") = Left("create")'
        BY <1>3, <3>2
      <4> QED  BY <4>1, <4>2, <4>3
    <3>3. CASE step[1] = "stamp"
      <4>1. work'.objects = work.objects
        BY <1>1, <1>2, <3>3 DEF Done, Versions
      <4>2. Left("create") = Left("create")' /\ Left("drop") = Left("drop")'
        BY <1>3, <3>3
      <4> QED  BY <4>1, <4>2
    <3> QED  BY <1>2, <3>1, <3>2, <3>3 DEF Steps
  <2> QED  BY <1>4, <1>6, <2>2, <2>3 DEF LeadsTo
<1> QED  BY <1>5, <1>6

LEMMA ApplyStep ==
  ASSUME SchemaInv, Apply
  PROVE  SchemaInv'
<1>0. /\ todo \in Seq(Steps) /\ todo # << >> /\ work \in Versions
      /\ todo' = Tail(todo) /\ work' = Done(Head(todo))
      /\ UNCHANGED <<state, db, rows, command>>
      /\ command # "none" /\ command \in {"none", "upgrade", "downgrade"}
  BY DEF SchemaInv, TypeOK, Apply, Underway
<1>1. TypeOK'
  <2>1. Head(todo) \in Steps /\ todo' \in Seq(Steps)
    BY <1>0, HeadTailProperties
  <2>2. work' \in Versions
    BY <1>0, <2>1 DEF Done, Versions, Steps
  <2> QED  BY <1>0, <2>1, <2>2 DEF SchemaInv, TypeOK
<1>2. \A verb : Left(verb)' \subseteq Left(verb)
  BY <1>0, NamedTail DEF Left
<1>3. Underway'
  <2>1. CASE command = "upgrade"
    <3>1. LeadsTo(HeadRevision) /\ Left("drop") = {}
      BY <2>1 DEF SchemaInv, Underway
    <3>2. LeadsTo(HeadRevision)'
      BY <3>1, ApplyLeads
    <3> QED  BY <1>0, <1>2, <2>1, <3>1, <3>2 DEF Underway
  <2>2. CASE command = "downgrade"
    <3>1. db.revision # HeadRevision
      BY <2>2, HeadStays DEF Apply
    <3> DEFINE r == db.revision - 1
    <3>2. LeadsTo(r) /\ Left("create") = {} /\ db.revision > 0
      BY <2>2, <3>1 DEF SchemaInv, Underway
    <3>3. PICK n : n = r
      OBVIOUS
    <3>4. LeadsTo(n)'
      BY <3>2, <3>3, ApplyLeads
    <3>5. LeadsTo(db.revision - 1)'
      BY <1>0, <3>3, <3>4 DEF LeadsTo
    <3> QED  BY <1>0, <1>2, <2>2, <3>1, <3>2, <3>5 DEF Underway
  <2> QED  BY <1>0, <2>1, <2>2
<1>4. AtHead'
  BY <1>0 DEF SchemaInv, AtHead, Running
<1> QED  BY <1>0, <1>1, <1>3, <1>4 DEF SchemaInv

\* The end of a process says nothing about the services, and migrate completes
\* only with an upgrade.
LEMMA ExitStep ==
  ASSUME SchemaInv, NEW outcome \in {"failed", "completed"}, Exit(outcome),
         rows' \in BOOLEAN, db' \in Versions, work' \in Versions,
         db'.objects = ObjectsAt(db'.revision),
         db.revision = HeadRevision => db'.revision = HeadRevision,
         command = "upgrade" /\ outcome = "completed" => db'.revision = HeadRevision
  PROVE  SchemaInv'
<1>1. /\ command' = "none" /\ todo' = << >>
      /\ IF command = "upgrade" THEN state' = [state EXCEPT !["migrate"] = outcome]
                                ELSE state' = state
  BY DEF Exit, Become
<1>2. /\ state \in [Containers -> Outcomes] /\ outcome \in Outcomes
      /\ "migrate" \in Containers /\ "migrate" \notin Services
      /\ Services \subseteq Containers
  BY DEF SchemaInv, TypeOK, Outcomes, Containers, DependsOn, Services
<1>3. state' \in [Containers -> Outcomes]
  BY <1>1, <1>2
<1>4. TypeOK'
  BY <1>1, <1>3 DEF TypeOK
<1>5. Underway'
  BY <1>1 DEF Underway
<1>6. AtHead'
  <2>1. \A d \in Services : Running(d)' <=> Running(d)
    BY <1>1, <1>2 DEF Running
  <2>2. state'["migrate"] = "completed" =>
          \/ state["migrate"] = "completed"
          \/ command = "upgrade" /\ outcome = "completed"
    BY <1>1, <1>2
  <2> QED  BY <2>1, <2>2 DEF SchemaInv, AtHead
<1> QED  BY <1>4, <1>5, <1>6 DEF SchemaInv

LEMMA EndStep ==
  ASSUME SchemaInv, Rollback \/ Commit
  PROVE  SchemaInv'
<1>0. /\ db \in Versions /\ work \in Versions /\ rows \in BOOLEAN
      /\ db.objects = ObjectsAt(db.revision)
      /\ command \in {"none", "upgrade", "downgrade"}
  BY DEF SchemaInv, TypeOK
<1>1. CASE Rollback
  BY <1>0, <1>1, ExitStep DEF Rollback
<1>2. CASE Commit
  <2>1. /\ command # "none" /\ todo = << >> /\ db' = work /\ work' = work
        /\ rows' \in BOOLEAN /\ Exit("completed")
    BY <1>0, <1>2 DEF Commit
  <2>2. \A verb : Left(verb) = {}
    BY <2>1 DEF Left, Named
  <2>3. CASE command = "upgrade"
    <3>1. LeadsTo(HeadRevision)
      BY <2>3 DEF SchemaInv, Underway
    <3>2. work.revision = HeadRevision /\ work.objects = ObjectsAt(HeadRevision)
      BY <2>1, <2>2, <3>1 DEF LeadsTo
    <3> QED  BY <1>0, <2>1, <3>2, ExitStep
  <2>4. CASE command = "downgrade"
    <3>1. db.revision # HeadRevision
      BY <2>1, <2>4, HeadStays
    <3>2. LeadsTo(db.revision - 1)
      BY <2>4, <3>1 DEF SchemaInv, Underway
    <3>3. /\ work.revision = db.revision - 1
          /\ work.objects = ObjectsAt(db.revision - 1)
      BY <2>1, <2>2, <3>2 DEF LeadsTo
    <3> QED  BY <1>0, <2>1, <2>4, <3>1, <3>3, ExitStep
  <2> QED  BY <1>0, <2>1, <2>3, <2>4
<1> QED  BY <1>1, <1>2

LEMMA StepInv == SchemaInv /\ [Next]_vars => SchemaInv'
<1> SUFFICES ASSUME SchemaInv, [Next]_vars PROVE SchemaInv'
  OBVIOUS
<1>1. CASE Insert \/ UNCHANGED vars
  <2>1. UNCHANGED <<state, db, work, todo, command>> /\ rows' \in BOOLEAN
    BY <1>1 DEF Insert, vars, SchemaInv, TypeOK
  <2>2. TypeOK'
    BY <2>1 DEF SchemaInv, TypeOK
  <2>3. Underway' /\ AtHead'
    BY <2>1 DEF SchemaInv, Underway, LeadsTo, Left, AtHead, Running
  <2> QED  BY <2>1, <2>2, <2>3 DEF SchemaInv
<1>2. CASE \E c \in Containers : Start(c) \/ Healthcheck(c) \/ Fail(c)
  BY <1>2, ContainerStep
<1>3. CASE Up
  BY <1>3, UpStep
<1>4. CASE RunDowngrade \/ Migrate
  BY <1>4, BeginStep
<1>5. CASE Apply
  BY <1>5, ApplyStep
<1>6. CASE Rollback \/ Commit
  BY <1>6, EndStep
<1> QED  BY <1>1, <1>2, <1>3, <1>4, <1>5, <1>6 DEF Next, Alembic

LEMMA Invariance == Spec => []SchemaInv
BY InitInv, StepInv, PTL DEF Spec

\* Every reachable state of containers, database and alembic process is well typed.
THEOREM TypeCorrect == Spec => []TypeOK
<1>1. SchemaInv => TypeOK
  BY DEF SchemaInv
<1> QED  BY <1>1, Invariance, PTL

\* However many commands are given and whatever fails and when, what is committed
\* is a whole revision, and nothing that needs the tables runs below the head.
THEOREM SchemaFitsAlways == Spec => []SchemaFits
<1>1. SchemaInv => SchemaFits
  BY DEF SchemaInv, AtHead, SchemaFits, Services
<1> QED  BY <1>1, Invariance, PTL

-----------------------------------------------------------------------------
(***************************************************************************)
(* Which migrations fail.  A plan touches each object once.                *)
(***************************************************************************)
\* Two migrations there is no way through: an upgrade of rows without an owner,
\* and a downgrade from the head, whose first step names no constraint.
Stuck ==
  \/ command = "upgrade" /\ Ownerless
  \/ command = "downgrade" /\ db.revision = HeadRevision

Touched(plan) == Named(plan, "create") \cup Named(plan, "drop")

Once(plan) ==
  \A j, k \in DOMAIN plan :
    /\ plan[j][1] # "stamp" /\ plan[k][1] # "stamp"
    /\ plan[j][2] = plan[k][2]
    => j = k

\* No statement of the plan creates what exists or drops what does not.
Passable(plan, objects) ==
  /\ Once(plan)
  /\ Named(plan, "create") \cap objects = {}
  /\ Named(plan, "drop") \subseteq objects

PassInv ==
  /\ command = "upgrade" =>
       /\ Passable(todo, work.objects)
       /\ db.revision = HeadRevision => todo = << >>
       /\ Ownerless => "user_id" \in Left("create")
  /\ command = "downgrade" /\ db.revision # HeadRevision =>
       Passable(todo, work.objects)

LEMMA TouchedBy ==
  ASSUME NEW plan \in Seq(Steps), NEW k \in DOMAIN plan, plan[k][1] # "stamp"
  PROVE  plan[k][2] \in Touched(plan)
<1>1. plan[k] \in Steps
  BY LenProperties, ElementOfSeq
<1>2. plan[k][1] \in {"create", "drop"}
  BY <1>1 DEF Steps
<1> QED  BY <1>2 DEF Touched, Named

LEMMA OnceConcat ==
  ASSUME NEW p \in Seq(Steps), NEW q \in Seq(Steps), Once(p), Once(q),
         Touched(p) \cap Touched(q) = {}
  PROVE  Once(p \o q)
<1>1. /\ Len(p \o q) = Len(p) + Len(q) /\ p \o q \in Seq(Steps)
      /\ \A k \in 1 .. Len(p) : (p \o q)[k] = p[k]
      /\ \A k \in 1 .. Len(q) : (p \o q)[Len(p) + k] = q[k]
      /\ Len(p) \in Nat /\ Len(q) \in Nat
  BY ConcatProperties, LenProperties
<1>2. /\ DOMAIN p = 1 .. Len(p) /\ DOMAIN q = 1 .. Len(q)
      /\ DOMAIN (p \o q) = 1 .. Len(p) + Len(q)
  BY <1>1, LenProperties
<1> DEFINE all == p \o q
<1>3. ASSUME NEW k \in DOMAIN all
      PROVE  \/ k \in DOMAIN p /\ all[k] = p[k]
             \/ k - Len(p) \in DOMAIN q /\ all[k] = q[k - Len(p)]
  <2>1. CASE k <= Len(p)
    BY <1>1, <1>2, <2>1
  <2>2. CASE ~(k <= Len(p))
    <3>1. k - Len(p) \in 1 .. Len(q) /\ Len(p) + (k - Len(p)) = k
      BY <1>1, <1>2, <2>2
    <3> QED  BY <1>1, <1>2, <3>1
  <2> QED  BY <2>1, <2>2
<1> HIDE DEF all
<1>4. ASSUME NEW j \in DOMAIN all, NEW k \in DOMAIN all,
             all[j][1] # "stamp", all[k][1] # "stamp", all[j][2] = all[k][2]
      PROVE  j = k
  <2>1. /\ j \in DOMAIN p /\ all[j] = p[j] => all[j][2] \in Touched(p)
        /\ k \in DOMAIN p /\ all[k] = p[k] => all[k][2] \in Touched(p)
        /\ j - Len(p) \in DOMAIN q /\ all[j] = q[j - Len(p)]
             => all[j][2] \in Touched(q)
        /\ k - Len(p) \in DOMAIN q /\ all[k] = q[k - Len(p)]
             => all[k][2] \in Touched(q)
    BY <1>4, TouchedBy
  <2>2. /\ j \in DOMAIN p /\ k \in DOMAIN p /\ all[j] = p[j] /\ all[k] = p[k]
             => j = k
        /\ j - Len(p) \in DOMAIN q /\ k - Len(p) \in DOMAIN q
             /\ all[j] = q[j - Len(p)] /\ all[k] = q[k - Len(p)]
             => j - Len(p) = k - Len(p)
    BY <1>4 DEF Once
  <2>3. j \in Nat /\ k \in Nat /\ (j - Len(p) = k - Len(p) => j = k)
    BY <1>1, <1>2, <1>4 DEF all
  <2> QED  BY <1>3, <1>4, <2>1, <2>2, <2>3
<1> QED  BY <1>4 DEF Once, all

LEMMA OncePlan ==
  ASSUME NEW verb \in {"create", "drop"}, NEW objects \in Seq(Objects),
         NEW r \in Revisions,
         \A j, k \in DOMAIN objects : objects[j] = objects[k] => j = k
  PROVE  Once(Each(verb, objects) \o << <<"stamp", r>> >>)
<1> DEFINE each  == Each(verb, objects)
           stamp == << <<"stamp", r>> >>
<1>1. /\ Len(objects) \in Nat /\ DOMAIN objects = 1 .. Len(objects)
      /\ \A k \in DOMAIN objects : objects[k] \in Objects
  BY LenProperties
<1>2. each = [k \in 1 .. Len(objects) |-> <<verb, objects[k]>>]
  BY <1>1 DEF Each
<1>3. \A k \in 1 .. Len(objects) : <<verb, objects[k]>> \in Steps
  BY <1>1 DEF Steps
<1> HIDE DEF each
<1>4. each \in Seq(Steps) /\ DOMAIN each = DOMAIN objects
  BY <1>1, <1>2, <1>3
<1>5. Once(each)
  BY <1>1, <1>2, <1>4 DEF Once
<1>6. stamp \in Seq(Steps) /\ \A k \in DOMAIN stamp : stamp[k][1] = "stamp"
  BY DEF Steps
<1> HIDE DEF stamp
<1>7. Once(stamp) /\ Touched(stamp) = {}
  BY <1>6 DEF Once, Touched, Named
<1> QED  BY <1>4, <1>5, <1>6, <1>7, OnceConcat DEF each, stamp

LEMMA OnceUpgrade ==
  ASSUME NEW r \in Revisions \ {0}
  PROVE  Once(Upgrade(r)) /\ Once(Downgrade(r))
<1>1. r \in {1, 2, 3} /\ r - 1 \in Revisions
  BY DEF Revisions, HeadRevision
<1>2. Objects = {"generations", "users", "ix_users_email", "user_id",
                 "ix_generations_user_id", "user_fk", "nameless"}
  BY WhatIsCreated, WhatIsNamed DEF Objects, HeadRevision
<1> HIDE DEF Objects
<1>3. /\ Creates[r] \in Seq(Objects)
      /\ \A j, k \in DOMAIN Creates[r] : Creates[r][j] = Creates[r][k] => j = k
  <2>1. CASE r = 1
    BY <1>2, <2>1 DEF Creates
  <2>2. CASE r = 2
    BY <1>2, <2>2 DEF Creates
  <2>3. CASE r = 3
    BY <1>2, <2>3 DEF Creates
  <2> QED  BY <1>1, <2>1, <2>2, <2>3
<1>4. /\ Drops[r] \in Seq(Objects)
      /\ \A j, k \in DOMAIN Drops[r] : Drops[r][j] = Drops[r][k] => j = k
  <2>1. CASE r = 1
    BY <1>2, <2>1 DEF Drops
  <2>2. CASE r = 2
    BY <1>2, <2>2 DEF Drops
  <2>3. CASE r = 3
    BY <1>2, <2>3 DEF Drops
  <2> QED  BY <1>1, <2>1, <2>2, <2>3
<1>5. Once(Upgrade(r))
  BY <1>3, OncePlan DEF Upgrade
<1>6. Once(Downgrade(r))
  BY <1>1, <1>4, OncePlan DEF Downgrade
<1> QED  BY <1>5, <1>6

LEMMA UpgradePasses ==
  ASSUME NEW r \in Revisions
  PROVE  /\ Passable(UpgradeToHead(r), ObjectsAt(r))
         /\ r # HeadRevision => "user_id" \in Named(UpgradeToHead(r), "create")
<1> DEFINE From(n) == IF n > r THEN Upgrade(n) ELSE << >>
           first == From(1) \o From(2)
           plan  == first \o From(3)
<1>1. /\ UpgradeToHead(r) = plan
      /\ r \in 0 .. 3 /\ HeadRevision = 3 /\ {1, 2, 3} \subseteq Revisions \ {0}
  BY DEF UpgradeToHead, Revisions, HeadRevision
<1>2. ASSUME NEW n \in Revisions \ {0}
      PROVE  From(n) \in Seq(Steps) /\ Once(From(n))
             /\ Named(From(n), "create") \subseteq CreatedBy(n)
             /\ Named(From(n), "drop") = {}
  <2>1. CASE n > r
    BY <2>1, UpgradeOf, OnceUpgrade
  <2>2. CASE ~(n > r)
    <3>1. From(n) = << >> /\ << >> \in Seq(Steps)
      BY <2>2
    <3>2. DOMAIN From(n) = {}
      BY <3>1
    <3> QED  BY <3>1, <3>2 DEF Named, Once
  <2> QED  BY <2>1, <2>2
<1> HIDE DEF From
<1>3. /\ \A n \in {1, 2, 3} : /\ From(n) \in Seq(Steps) /\ Once(From(n))
                              /\ Touched(From(n)) \subseteq CreatedBy(n)
      /\ CreatedBy(1) \cap CreatedBy(2) = {}
      /\ (CreatedBy(1) \cup CreatedBy(2)) \cap CreatedBy(3) = {}
  BY <1>1, <1>2, WhatIsNamed DEF Touched
<1>4. first \in Seq(Steps) /\ Once(first)
  <2>1. Touched(From(1)) \cap Touched(From(2)) = {}
    BY <1>3
  <2> QED  BY <1>3, <2>1, OnceConcat, ConcatProperties
<1>5. Touched(first) \subseteq CreatedBy(1) \cup CreatedBy(2)
  <2>1. \A verb : Named(first, verb) = Named(From(1), verb) \cup Named(From(2), verb)
    BY <1>3, NamedConcat
  <2> QED  BY <1>3, <2>1 DEF Touched
<1> HIDE DEF first
<1>6. Once(plan)
  <2>1. Touched(first) \cap Touched(From(3)) = {}
    BY <1>3, <1>5
  <2> QED  BY <1>3, <1>4, <2>1, OnceConcat
<1> HIDE DEF plan
<1>7. /\ ObjectsAt(r) \cup Named(plan, "create") = ObjectsAt(HeadRevision)
      /\ ObjectsAt(r) \cap Named(plan, "create") = {}
      /\ Named(plan, "drop") = {}
  BY <1>1, UpgradeToHeadOf
<1>8. /\ "user_id" \in ObjectsAt(HeadRevision)
      /\ r # HeadRevision => "user_id" \notin ObjectsAt(r)
  <2>1. "user_id" \in ObjectsAt(3)
    BY WhatIsCreated, WhatIsNamed
  <2>2. /\ "user_id" \notin ObjectsAt(0) /\ "user_id" \notin ObjectsAt(1)
        /\ "user_id" \notin ObjectsAt(2)
    BY WhatIsCreated, WhatIsNamed
  <2> QED  BY <1>1, <2>1, <2>2
<1> QED  BY <1>1, <1>6, <1>7, <1>8 DEF Passable

\* A statement that does not raise leaves the rest of a passable plan passable.
LEMMA RestPasses ==
  ASSUME NEW plan \in Seq(Steps), plan # << >>, NEW before \in Versions,
         Passable(plan, before.objects), work = before
  PROVE  Passable(Tail(plan), Done(Head(plan)).objects)
<1> DEFINE step == Head(plan)
           rest == Tail(plan)
<1>1. /\ Len(plan) \in Nat /\ Len(plan) # 0 /\ DOMAIN plan = 1 .. Len(plan)
      /\ rest \in Seq(Steps) /\ Len(rest) = Len(plan) - 1
      /\ \A k \in 1 .. Len(plan) - 1 : rest[k] = plan[k + 1]
      /\ step = plan[1] /\ step \in Steps
  BY LenProperties, EmptySeq, HeadTailProperties
<1>2. DOMAIN rest = 1 .. Len(plan) - 1
  BY <1>1, LenProperties
<1>3. \A k \in DOMAIN rest : k + 1 \in DOMAIN plan /\ k + 1 # 1 /\ 1 \in DOMAIN plan
  BY <1>1, <1>2
<1>4. Once(rest)
  BY <1>1, <1>2, <1>3 DEF Passable, Once
<1>5. \A verb : Named(plan, verb)
                  = Named(rest, verb) \cup (IF step[1] = verb THEN {step[2]} ELSE {})
  BY <1>1, NamedTail
<1>6. step[1] # "stamp" => step[2] \notin Touched(rest)
  <2>1. ASSUME step[1] # "stamp", NEW k \in DOMAIN rest, rest[k][1] # "stamp"
        PROVE  rest[k][2] # step[2]
    BY <1>1, <1>2, <1>3, <2>1 DEF Passable, Once
  <2>2. \A o \in Touched(rest) : \E k \in DOMAIN rest :
          rest[k][1] # "stamp" /\ rest[k][2] = o
    BY DEF Touched, Named
  <2> QED  BY <2>1, <2>2
<1>7. Done(step).objects = IF step[1] = "create" THEN before.objects \cup {step[2]}
                           ELSE IF step[1] = "drop" THEN before.objects \ {step[2]}
                           ELSE before.objects
  BY <1>1 DEF Done, Steps, Versions
<1> HIDE DEF step, rest
<1>8. step[1] \in {"create", "drop", "stamp"}
  BY <1>1 DEF Steps
<1> QED  BY <1>4, <1>5, <1>6, <1>7, <1>8 DEF Passable, Touched, step, rest

LEMMA PassBegins ==
  ASSUME SchemaInv, Migrate \/ RunDowngrade
  PROVE  PassInv'
<1> DEFINE r == db.revision
<1>1. /\ r \in Revisions /\ db.objects = ObjectsAt(r) /\ work' = db
      /\ UNCHANGED <<db, rows>>
  BY DEF SchemaInv, TypeOK, Versions, Migrate, RunDowngrade, Begin
<1>2. CASE Migrate
  <2>1. command' = "upgrade" /\ todo' = UpgradeToHead(r)
    BY <1>2 DEF Migrate, Begin
  <2>2. /\ Passable(todo', ObjectsAt(r))
        /\ r # HeadRevision => "user_id" \in Named(todo', "create")
        /\ r = HeadRevision => todo' = << >>
    BY <1>1, <2>1, UpgradePasses, UpgradeToHeadOf
  <2> QED  BY <1>1, <2>1, <2>2 DEF PassInv, Ownerless, Left, HeadRevision
<1>3. CASE RunDowngrade
  <2>1. command' = "downgrade" /\ todo' = Downgrade(r) /\ r \in Revisions \ {0}
    BY <1>1, <1>3 DEF RunDowngrade, Begin
  <2>2. /\ r # HeadRevision => Named(todo', "drop") \subseteq ObjectsAt(r)
        /\ Named(todo', "create") = {} /\ Once(todo')
    BY <1>1, <2>1, OnceUpgrade, DowngradeOf
  <2> QED  BY <1>1, <2>1, <2>2 DEF PassInv, Passable
<1> QED  BY <1>2, <1>3

LEMMA PassApplies ==
  ASSUME SchemaInv, PassInv, Apply
  PROVE  PassInv'
<1>1. /\ todo \in Seq(Steps) /\ todo # << >> /\ work \in Versions
      /\ todo' = Tail(todo) /\ work' = Done(Head(todo)) /\ ~Raises(Head(todo))
      /\ UNCHANGED <<db, rows, command>>
  BY DEF SchemaInv, TypeOK, Apply
<1>2. Passable(todo, work.objects) => Passable(todo', work'.objects)
  BY <1>1, RestPasses
<1>3. Left("create") =
        Left("create")' \cup (IF Head(todo)[1] = "create" THEN {Head(todo)[2]} ELSE {})
  BY <1>1, NamedTail DEF Left
<1>4. rows /\ "user_id" \in Left("create") => "user_id" \in Left("create")'
  BY <1>1, <1>3 DEF Raises
<1> QED  BY <1>1, <1>2, <1>4 DEF PassInv, Ownerless

LEMMA PassNext == SchemaInv /\ PassInv /\ [Next]_vars => PassInv'
<1> SUFFICES ASSUME SchemaInv, PassInv, [Next]_vars PROVE PassInv'
  OBVIOUS
<1>1. CASE Migrate \/ RunDowngrade
  BY <1>1, PassBegins
<1>2. CASE Apply
  BY <1>2, PassApplies
<1>3. CASE Rollback \/ Commit
  BY <1>3 DEF Rollback, Commit, Exit, PassInv
<1>4. CASE Insert
  <2>1. db.revision = HeadRevision
    BY <1>4 DEF Insert, SchemaInv, AtHead, Services
  <2> QED  BY <1>4, <2>1 DEF Insert, PassInv, Ownerless, Left, HeadRevision
<1>5. CASE UNCHANGED <<db, rows, work, todo, command>>
  BY <1>5 DEF PassInv, Ownerless, Left
<1>6. ASSUME NEW c \in Containers, Fail(c)
      PROVE  \/ UNCHANGED <<db, rows, work, todo, command>>
             \/ command' = "none"
  BY <1>6 DEF Fail
<1>7. CASE command' = "none"
  BY <1>7 DEF PassInv
<1> QED  BY <1>1, <1>2, <1>3, <1>4, <1>5, <1>6, <1>7
         DEF Next, Alembic, Start, Healthcheck, Up, alembic, vars

\* An alembic process that raises is stuck, and one that commits is not.
OnlyStuckRaise == [][(Rollback => Stuck) /\ (Commit => ~Stuck)]_vars

LEMMA RaisesStuck ==
  ASSUME SchemaInv, PassInv, Rollback
  PROVE  Stuck
<1> DEFINE step == Head(todo)
<1>1. /\ todo \in Seq(Steps) /\ todo # << >> /\ Raises(step)
      /\ command \in {"none", "upgrade", "downgrade"} /\ db.revision \in Revisions
  BY DEF Rollback, SchemaInv, TypeOK, Versions
<1> SUFFICES ASSUME ~Stuck PROVE FALSE
  OBVIOUS
<1>2. command # "none"
  BY <1>1 DEF SchemaInv, Underway
<1>3. Passable(todo, work.objects) /\ (command = "upgrade" => ~rows)
  BY <1>1, <1>2 DEF PassInv, Stuck, Ownerless, Revisions, HeadRevision
<1>4. step = todo[1] /\ 1 \in DOMAIN todo
  BY <1>1, LenProperties, EmptySeq
<1>5. /\ step[1] = "create" =>
           step[2] \in Left("create") /\ step[2] \notin work.objects
      /\ step[1] = "drop" => step[2] \in work.objects
  BY <1>3, <1>4 DEF Passable, Named, Left
<1>6. command = "downgrade" => Left("create") = {}
  BY DEF SchemaInv, Underway
<1> QED  BY <1>1, <1>2, <1>3, <1>5, <1>6 DEF Raises

LEMMA StuckStays ==
  ASSUME SchemaInv, PassInv, Commit
  PROVE  ~Stuck
<1>1. command # "none" /\ todo = << >>
  BY DEF Commit
<1>2. Left("create") = {}
  BY <1>1 DEF Left, Named
<1> QED  BY <1>1, <1>2, HeadStays DEF PassInv, Stuck

\* Whatever ran, failed or was killed before: no upgrade gets past rows without an
\* owner, no downgrade leaves the head, and no other migration ever raises.
THEOREM OnlyStuckRaises == Spec => OnlyStuckRaise
<1>1. Init => PassInv
  BY DEF Init, PassInv
<1>2. SchemaInv /\ PassInv /\ [Next]_vars => (SchemaInv /\ PassInv)'
  BY StepInv, PassNext
<1>3. SchemaInv /\ PassInv => (Rollback => Stuck) /\ (Commit => ~Stuck)
  BY RaisesStuck, StuckStays
<1> QED  BY <1>1, <1>2, <1>3, InitInv, PTL DEF Spec, OnlyStuckRaise
=============================================================================
