--------------------------- MODULE DevicesProofs ----------------------------
(***************************************************************************)
(* Proofs about Devices, for any number of devices, requests and keys.     *)
(***************************************************************************)
EXTENDS Devices, TLAPS

\* What a request in progress has read.
LEMMA RequestFields ==
  ASSUME TypeOK, NEW p \in Requests
  PROVE  /\ req[p].op = "exchange" => req[p].sub \in Ids /\ req[p].seen \in Device
         /\ req[p].op = "found" => req[p].sub \in Ids
  BY DEF TypeOK, Request, Idle

\* The rows that the functions of a row return.
LEMMA DeviceFunctions ==
  ASSUME TypeOK, NEW d \in Ids
  PROVE  /\ \A enabled \in BOOLEAN :
              /\ WithEnabled(devices[d], enabled) \in Device
              /\ WithEnabled(devices[d], enabled).key = devices[d].key
              /\ WithEnabled(devices[d], enabled).gen = devices[d].gen
              /\ WithEnabled(devices[d], enabled).life = devices[d].life
         /\ WithNewKey(devices[d]) \in Device
         /\ WithNewKey(devices[d]).key = keys + 1
         /\ WithNewKey(devices[d]).gen = devices[d].gen + 1
         /\ WithNewKey(devices[d]).life = devices[d].life
         /\ devices[d].key \in Nat /\ devices[d].gen \in Nat /\ devices[d].life \in Nat
<1>1. devices[d] \in Device
  BY DEF TypeOK
<1>2. devices[d].gen + 1 \in Nat /\ keys + 1 \in Nat
  BY <1>1 DEF TypeOK, Device
<1>3. QED
  BY <1>1, <1>2 DEF WithEnabled, WithNewKey, Device

LEMMA RequestTypes ==
  ASSUME TypeOK, NEW p \in Requests, RequestStep(p)
  PROVE  TypeOK'
<1> USE DEF Done, Become
<1>0. Idle \in Request
  BY DEF Request
<1>1. ASSUME NEW r \in Request, req' = [req EXCEPT ![p] = r]
      PROVE  req' \in [Requests -> Request]
  BY <1>1 DEF TypeOK
<1>2. ASSUME NEW d \in Ids, KeyRead(p, d)
      PROVE  TypeOK'
  <2>1. [op |-> "exchange", sub |-> d, seen |-> devices[d]] \in Request
    BY DEF Request, TypeOK
  <2>2. QED
    BY <1>1, <1>2, <2>1 DEF KeyRead, Unchanged, TypeOK
<1>3. ASSUME NEW d \in Ids, Find(p, d)
      PROVE  TypeOK'
  <2>1. [op |-> "found", sub |-> d] \in Request
    BY DEF Request
  <2>2. QED
    BY <1>1, <1>3, <2>1 DEF Find, Unchanged, TypeOK
<1>4. CASE KeyWrite(p)
  <2>1. req[p].sub \in Ids /\ req[p].seen \in Device
    BY <1>4, RequestFields DEF KeyWrite
  <2>2. TokenFor(req[p].sub, req[p].seen) \in Token
    BY <2>1, TTLAssumption DEF TokenFor, Token, Device, TypeOK
  <2>3. QED
    BY <1>0, <1>1, <1>4, <2>2 DEF KeyWrite, TypeOK
<1>5. ASSUME NEW enabled \in BOOLEAN \cup {None}, Update(p, enabled)
      PROVE  TypeOK'
  <2>1. req[p].sub \in Ids
    BY <1>5, RequestFields DEF Update
  <2>2. devices' \in [Ids -> Device]
    <3>1. CASE enabled = None
      BY <1>5, <3>1 DEF Update, TypeOK
    <3>2. CASE enabled # None
      BY <1>5, <2>1, <3>2, DeviceFunctions DEF Update, TypeOK
    <3>3. QED
      BY <3>1, <3>2
  <2>3. audit' \in Entry
    BY <1>5, <2>1 DEF Update, Audited, Entry
  <2>4. QED
    BY <1>0, <1>1, <1>5, <2>2, <2>3 DEF Update, TypeOK
<1>6. CASE Rotate(p)
  <2>1. req[p].sub \in Ids
    BY <1>6, RequestFields DEF Rotate
  <2>2. devices' \in [Ids -> Device]
    BY <1>6, <2>1, DeviceFunctions DEF Rotate, TypeOK
  <2>3. audit' \in Entry
    BY <1>6, <2>1 DEF Rotate, Audited, Entry
  <2>4. QED
    BY <1>0, <1>1, <1>6, <2>2, <2>3 DEF Rotate, TypeOK
<1>7. CASE Delete(p)
  <2>1. req[p].sub \in Ids
    BY <1>7, RequestFields DEF Delete
  <2>2. NoDevice \in Device
    BY DEF NoDevice, Device
  <2>3. audit' \in Entry
    BY <1>7, <2>1 DEF Delete, Audited, Entry
  <2>4. QED
    BY <1>0, <1>1, <1>7, <2>1, <2>2, <2>3 DEF Delete, TypeOK
<1>8. CASE Fail(p)
  BY <1>0, <1>1, <1>8 DEF Fail, Unchanged, TypeOK
<1>9. QED
  BY <1>2, <1>3, <1>4, <1>5, <1>6, <1>7, <1>8 DEF RequestStep

LEMMA OtherTypes ==
  ASSUME TypeOK, Tick \/ \E d \in Ids : Create(d)
  PROVE  TypeOK'
<1>1. ASSUME NEW d \in Ids, Create(d)
      PROVE  TypeOK'
  <2>1. [key |-> keys + 1, gen |-> 0, enabled |-> TRUE, life |-> lives + 1] \in Device
    BY DEF Device, TypeOK
  <2>2. audit' \in Entry
    BY <1>1 DEF Create, Audited, Entry
  <2>3. QED
    BY <1>1, <2>1, <2>2 DEF Create, TypeOK
<1>2. CASE Tick
  BY <1>2 DEF Tick, TypeOK
<1>3. QED
  BY <1>1, <1>2

\* Every variable keeps its type.
THEOREM TypeCorrect == Spec => []TypeOK
<1>1. Init => TypeOK
  BY DEF Init, TypeOK, NoDevice, Device, Request
<1>2. TypeOK /\ [Next]_vars => TypeOK'
  <2>1. TypeOK /\ UNCHANGED vars => TypeOK'
    BY DEF TypeOK, vars
  <2>2. QED
    BY <2>1, RequestTypes, OtherTypes DEF Next
<1>3. QED
  BY <1>1, <1>2, PTL DEF Spec

-----------------------------------------------------------------------------
(* Keys and generations *)

\* A key that was made for device d: in the registration it belongs to, its generation is
\* not ahead of the row's, and it is the row's key exactly when the generations agree.
Made(d, gen, key, life) ==
  /\ key \in 1 .. keys /\ life \in 1 .. lives
  /\ life = devices[d].life => gen <= devices[d].gen
  /\ life = devices[d].life /\ gen = devices[d].gen => key = devices[d].key
  /\ key = devices[d].key => gen = devices[d].gen /\ life = devices[d].life

KeyInv ==
  /\ \A d \in Ids : IF Registered(d)
                    THEN devices[d].key \in 1 .. keys /\ devices[d].life \in 1 .. lives
                    ELSE devices[d].key = 0
  /\ \A t \in tokens : t.exp > now /\ Made(t.sub, t.gen, t.key, t.life)
  /\ \A p \in Requests : req[p].op = "exchange" =>
       Made(req[p].sub, req[p].seen.gen, req[p].seen.key, req[p].seen.life)

\* A key that was made stays so, whatever happens to the row: the row is left alone but for
\* `enabled`, has a key newer than all, or is gone.
LEMMA MadeStays ==
  ASSUME TypeOK, NEW d \in Ids, keys' >= keys, lives' >= lives, keys' \in Nat, lives' \in Nat,
         \/ /\ devices'[d].key = devices[d].key
            /\ devices'[d].gen = devices[d].gen
            /\ devices'[d].life = devices[d].life
         \/ /\ devices'[d].key = keys + 1
            /\ devices'[d].gen = devices[d].gen + 1
            /\ devices'[d].life = devices[d].life
         \/ devices'[d].key = keys + 1 /\ devices'[d].life = lives + 1
         \/ devices'[d] = NoDevice,
         NEW gen \in Nat, NEW key \in Nat, NEW life \in Nat, Made(d, gen, key, life)
  PROVE  Made(d, gen, key, life)'
<1>1. keys \in Nat /\ lives \in Nat /\ devices[d].gen \in Nat
  BY DeviceFunctions DEF TypeOK
<1>2. key \in 1 .. keys' /\ life \in 1 .. lives'
  BY <1>1 DEF Made
<1>3. QED
  BY <1>1, <1>2 DEF Made, NoDevice

\* What every step does to the rows and to the counters.
LEMMA RowsStep ==
  ASSUME TypeOK, Next
  PROVE  /\ keys' >= keys /\ lives' >= lives
         /\ \A d \in Ids :
              \/ /\ devices'[d].key = devices[d].key
                 /\ devices'[d].gen = devices[d].gen
                 /\ devices'[d].life = devices[d].life
              \/ /\ Registered(d) /\ keys' = keys + 1
                 /\ devices'[d].key = keys + 1
                 /\ devices'[d].gen = devices[d].gen + 1
                 /\ devices'[d].life = devices[d].life
              \/ /\ keys' = keys + 1 /\ lives' = lives + 1
                 /\ devices'[d].key = keys + 1 /\ devices'[d].life = lives + 1
              \/ devices'[d] = NoDevice
<1> DEFINE Rows == \A d \in Ids :
              \/ /\ devices'[d].key = devices[d].key
                 /\ devices'[d].gen = devices[d].gen
                 /\ devices'[d].life = devices[d].life
              \/ /\ Registered(d) /\ keys' = keys + 1
                 /\ devices'[d].key = keys + 1
                 /\ devices'[d].gen = devices[d].gen + 1
                 /\ devices'[d].life = devices[d].life
              \/ /\ keys' = keys + 1 /\ lives' = lives + 1
                 /\ devices'[d].key = keys + 1 /\ devices'[d].life = lives + 1
              \/ devices'[d] = NoDevice
<1>1. keys \in Nat /\ lives \in Nat /\ devices \in [Ids -> Device]
  BY DEF TypeOK
<1>2. ASSUME NEW d \in Ids, Create(d)
      PROVE  keys' >= keys /\ lives' >= lives /\ Rows
  BY <1>1, <1>2 DEF Create
<1>3. ASSUME NEW p \in Requests, Rotate(p)
      PROVE  keys' >= keys /\ lives' >= lives /\ Rows
  <2>1. req[p].sub \in Ids
    BY <1>3, RequestFields DEF Rotate
  <2>2. QED
    BY <1>1, <1>3, <2>1, DeviceFunctions DEF Rotate
<1>4. ASSUME NEW p \in Requests, NEW enabled \in BOOLEAN \cup {None}, Update(p, enabled)
      PROVE  keys' >= keys /\ lives' >= lives /\ Rows
  <2>1. req[p].sub \in Ids
    BY <1>4, RequestFields DEF Update
  <2>2. CASE enabled = None
    BY <1>1, <1>4, <2>2 DEF Update
  <2>3. CASE enabled # None
    BY <1>1, <1>4, <2>1, <2>3, DeviceFunctions DEF Update
  <2>4. QED
    BY <2>2, <2>3
<1>5. ASSUME NEW p \in Requests, Delete(p)
      PROVE  keys' >= keys /\ lives' >= lives /\ Rows
  <2>1. req[p].sub \in Ids
    BY <1>5, RequestFields DEF Delete
  <2>2. QED
    BY <1>1, <1>5, <2>1 DEF Delete
<1>6. CASE UNCHANGED <<devices, keys, lives>>
  BY <1>1, <1>6
<1>7. QED
  BY <1>2, <1>3, <1>4, <1>5, <1>6
     DEF Next, RequestStep, KeyRead, KeyWrite, Find, Fail, Unchanged, Tick

\* Only an exchange that has read the row holds a key, and only its write makes a token.
LEMMA HoldersStep ==
  ASSUME TypeOK, Next
  PROVE  /\ \A p \in Requests : req'[p].op = "exchange" =>
              \/ req'[p] = req[p]
              \/ /\ Registered(req'[p].sub) /\ req'[p].sub \in Ids
                 /\ req'[p].seen = devices[req'[p].sub] /\ UNCHANGED <<devices, keys, lives>>
         /\ \A t \in tokens' : \/ t \in tokens /\ (t.exp > now => t.exp > now')
                               \/ /\ now' = now
                                  /\ \E p \in Requests : /\ req[p].op = "exchange"
                                                         /\ t = TokenFor(req[p].sub, req[p].seen)
<1> USE DEF Become, Done, Idle
<1>1. ASSUME NEW p \in Requests, RequestStep(p), ~KeyWrite(p)
      PROVE  UNCHANGED <<tokens, now>>
  BY <1>1 DEF RequestStep, KeyRead, Find, Update, Rotate, Delete, Fail, Unchanged
<1>2. ASSUME NEW q \in Requests, NEW r, req' = [req EXCEPT ![q] = r],
             \/ r.op # "exchange"
             \/ /\ Registered(r.sub) /\ r.sub \in Ids
                /\ r.seen = devices[r.sub] /\ UNCHANGED <<devices, keys, lives>>
      PROVE  \A p \in Requests : req'[p].op = "exchange" =>
              \/ req'[p] = req[p]
              \/ /\ Registered(req'[p].sub) /\ req'[p].sub \in Ids
                 /\ req'[p].seen = devices[req'[p].sub] /\ UNCHANGED <<devices, keys, lives>>
  BY <1>2 DEF TypeOK
<1>3. ASSUME NEW q \in Requests, RequestStep(q)
      PROVE  \E r : /\ req' = [req EXCEPT ![q] = r]
                    /\ \/ r.op # "exchange"
                       \/ /\ Registered(r.sub) /\ r.sub \in Ids
                          /\ r.seen = devices[r.sub] /\ UNCHANGED <<devices, keys, lives>>
  BY <1>3 DEF RequestStep, KeyRead, KeyWrite, Find, Update, Rotate, Delete, Fail, Unchanged
<1>4. CASE \E p \in Requests : RequestStep(p)
  BY <1>1, <1>2, <1>3, <1>4 DEF KeyWrite
<1>5. CASE Tick
  BY <1>5 DEF Tick, TypeOK
<1>6. CASE \E d \in Ids : Create(d)
  BY <1>6 DEF Create
<1>7. QED
  BY <1>4, <1>5, <1>6 DEF Next

LEMMA KeyInvStep ==
  ASSUME TypeOK, TypeOK', KeyInv, Next
  PROVE  KeyInv'
<1>1. keys \in Nat /\ lives \in Nat /\ keys' \in Nat /\ lives' \in Nat
  BY DEF TypeOK
<1>2. ASSUME NEW d \in Ids, NEW gen \in Nat, NEW key \in Nat, NEW life \in Nat,
             Made(d, gen, key, life)
      PROVE  Made(d, gen, key, life)'
  BY <1>1, <1>2, RowsStep, MadeStays
<1>3. ASSUME NEW d \in Ids
      PROVE  IF Registered(d)' THEN devices'[d].key \in 1 .. keys' /\ devices'[d].life \in 1 .. lives'
             ELSE devices'[d].key = 0
  BY <1>1, RowsStep DEF KeyInv, Registered, NoDevice
<1>4. ASSUME NEW p \in Requests, req'[p].op = "exchange"
      PROVE  Made(req[p].sub, req[p].seen.gen, req[p].seen.key, req[p].seen.life)'
  <2>1. CASE req'[p] = req[p]
    <3>1. req[p].sub \in Ids /\ req[p].seen \in Device
      BY <1>4, <2>1, RequestFields
    <3>2. QED
      BY <1>2, <1>4, <2>1, <3>1 DEF KeyInv, Device
  <2>2. CASE /\ Registered(req'[p].sub) /\ req'[p].sub \in Ids
             /\ req'[p].seen = devices[req'[p].sub] /\ UNCHANGED <<devices, keys, lives>>
    BY <2>2, DeviceFunctions DEF KeyInv, Made
  <2>3. QED
    BY <1>4, <2>1, <2>2, HoldersStep
<1>5. ASSUME NEW t \in tokens'
      PROVE  t.exp > now' /\ Made(t.sub, t.gen, t.key, t.life)'
  <2>1. CASE t \in tokens /\ (t.exp > now => t.exp > now')
    <3>1. t.sub \in Ids /\ t.gen \in Nat /\ t.key \in Nat /\ t.life \in Nat
      BY <2>1 DEF TypeOK, Token
    <3>2. QED
      BY <1>2, <2>1, <3>1 DEF KeyInv
  <2>2. ASSUME now' = now, NEW p \in Requests, req[p].op = "exchange",
               t = TokenFor(req[p].sub, req[p].seen)
        PROVE  t.exp > now' /\ Made(t.sub, t.gen, t.key, t.life)'
    <3>1. req[p].sub \in Ids /\ req[p].seen \in Device
      BY <2>2, RequestFields
    <3>2. /\ t.sub = req[p].sub /\ t.gen = req[p].seen.gen
          /\ t.key = req[p].seen.key /\ t.life = req[p].seen.life
          /\ t.exp = now + AccessTTL
      BY <2>2 DEF TokenFor
    <3>3. t.sub \in Ids /\ t.gen \in Nat /\ t.key \in Nat /\ t.life \in Nat
      BY <3>1, <3>2 DEF Device
    <3>4. Made(t.sub, t.gen, t.key, t.life)
      BY <2>2, <3>2 DEF KeyInv
    <3>5. Made(t.sub, t.gen, t.key, t.life)'
      BY <1>2, <3>3, <3>4
    <3>6. now \in Nat
      BY DEF TypeOK
    <3>7. QED
      BY <2>2, <3>2, <3>5, <3>6, TTLAssumption
  <2>3. QED
    BY <2>1, <2>2, HoldersStep
<1>6. QED
  BY <1>3, <1>4, <1>5 DEF KeyInv

LEMMA KeyInvariant == Spec => []KeyInv
<1>1. Init => KeyInv
  BY DEF Init, KeyInv, Registered, NoDevice, Idle
<1>2. TypeOK /\ TypeOK' /\ KeyInv /\ [Next]_vars => KeyInv'
  <2>1. UNCHANGED vars /\ KeyInv => KeyInv'
    BY DEF vars, KeyInv, Made, Registered
  <2>2. QED
    BY <2>1, KeyInvStep
<1>3. QED
  BY <1>1, <1>2, TypeCorrect, PTL DEF Spec

\* A rotation ends the tokens of the old key, those of exchanges that had read the row before
\* it included.
THEOREM RotationCorrect == Spec => []RotationEndsTokens
<1>1. KeyInv => RotationEndsTokens
  BY DEF KeyInv, Made, RotationEndsTokens, Accepted
<1>2. QED
  BY <1>1, KeyInvariant, PTL

\* No sequence of changes loses a token of the current key of an enabled device.
THEOREM CurrentTokensCorrect == Spec => []CurrentTokensWork
<1>1. TypeOK /\ KeyInv => CurrentTokensWork
  <2> SUFFICES ASSUME TypeOK, KeyInv, NEW t \in tokens,
                      devices[t.sub].enabled, t.key = devices[t.sub].key
               PROVE  Accepted(t)
    BY DEF CurrentTokensWork
  <2>1. t.sub \in Ids /\ t.life \in 1 .. lives /\ t.exp > now
    BY DEF TypeOK, Token, KeyInv, Made
  <2>2. t.gen = devices[t.sub].gen /\ t.life = devices[t.sub].life
    BY DEF KeyInv, Made
  <2>3. QED
    BY <2>1, <2>2 DEF Accepted, Registered
<1>2. QED
  BY <1>1, KeyInvariant, TypeCorrect, PTL

\* update_device, rotate_key: the log holds no update and no rotation of a device that a deletion
\* took away between _existing() and the write.  A device registered again in between is there:
\* the entry is of that later registration, which is the one that was changed.
THEOREM ChangesCorrect == Spec => AuditedChangesHappened
<1>1. ASSUME TypeOK, [Next]_vars, audit' # None, audit'.action \in {"update", "rotate_key"},
             ~UNCHANGED vars
      PROVE  /\ devices'[audit'.target].life # 0
             /\ devices'[audit'.target].life = devices[audit'.target].life
  <2>1. ~Tick /\ ~(\E d \in Ids : Create(d))
    BY <1>1 DEF Tick, Create, Audited
  <2>2. PICK p \in Requests : RequestStep(p)
    BY <1>1, <2>1 DEF Next
  <2>3. \/ \E enabled \in BOOLEAN \cup {None} : Update(p, enabled)
        \/ Rotate(p)
    <3>1. ~Delete(p)
      BY <1>1 DEF Delete, Audited
    <3>2. ~KeyWrite(p) /\ ~Fail(p) /\ \A d \in Ids : ~KeyRead(p, d) /\ ~Find(p, d)
      BY <1>1 DEF KeyRead, Find, KeyWrite, Fail, Unchanged
    <3> QED BY <2>2, <3>1, <3>2 DEF RequestStep
  <2>4. req[p].sub \in Ids /\ Registered(req[p].sub) /\ audit'.target = req[p].sub
    BY <1>1, <2>3, RequestFields DEF Update, Rotate, Audited
  <2>5. CASE Rotate(p)
    BY <1>1, <2>4, <2>5 DEF Rotate, WithNewKey, Registered, TypeOK, Device
  <2>6. ASSUME NEW enabled \in BOOLEAN \cup {None}, Update(p, enabled)
        PROVE  devices'[req[p].sub].life = devices[req[p].sub].life
    BY <1>1, <2>4, <2>6 DEF Update, WithEnabled, TypeOK, Device
  <2> QED BY <2>3, <2>4, <2>5, <2>6 DEF Registered
<1>2. TypeOK /\ [Next]_vars =>
        [audit' # None /\ audit'.action \in {"update", "rotate_key"}
         => /\ devices'[audit'.target].life # 0
            /\ devices'[audit'.target].life = devices[audit'.target].life]_vars
  BY <1>1
<1> QED BY <1>2, TypeCorrect, PTL DEF Spec, AuditedChangesHappened

-----------------------------------------------------------------------------
(* When an id may be registered again *)

\* An id is registered only when no token of an earlier registration is left, and no exchange
\* that has read its row.
Forgotten(d) ==
  /\ \A t \in tokens : t.sub # d
  /\ \A p \in Requests : req[p].op = "exchange" => req[p].sub # d
RegisteredWhenForgotten == [][\A d \in Ids : Create(d) => Forgotten(d)]_vars

\* Tokens, and exchanges under way, are of the registration that their device has.
OneLife ==
  /\ \A t \in tokens : Registered(t.sub) => t.life = devices[t.sub].life
  /\ \A p \in Requests : req[p].op = "exchange" /\ Registered(req[p].sub) =>
       req[p].seen.life = devices[req[p].sub].life

LEMMA LivesStep ==
  ASSUME TypeOK, Next, \A d \in Ids : ~Create(d), NEW d \in Ids, Registered(d)'
  PROVE  Registered(d) /\ devices'[d].life = devices[d].life
<1>1. lives' = lives
  BY DEF Next, RequestStep, KeyRead, KeyWrite, Find, Update, Rotate, Delete, Fail, Unchanged, Tick
<1>2. lives \in Nat /\ lives' # lives + 1
  BY <1>1 DEF TypeOK
<1>3. devices'[d].life = devices[d].life \/ devices'[d] = NoDevice
  BY <1>2, RowsStep
<1> QED BY <1>3 DEF Registered, NoDevice

LEMMA OneLifeStep ==
  ASSUME TypeOK, OneLife, Next, \A d \in Ids : Create(d) => Forgotten(d)
  PROVE  OneLife'
<1>1. ASSUME NEW d \in Ids, Create(d) PROVE OneLife'
  <2>1. tokens' = tokens /\ req' = req /\ \A e \in Ids \ {d} : devices'[e] = devices[e]
    BY <1>1 DEF Create, TypeOK
  <2>2. \A t \in tokens : t.sub \in Ids \ {d}
    BY <1>1 DEF Forgotten, TypeOK, Token
  <2>3. \A p \in Requests : req[p].op = "exchange" => req[p].sub \in Ids \ {d}
    BY <1>1, RequestFields DEF Forgotten
  <2> QED BY <2>1, <2>2, <2>3 DEF OneLife, Registered
<1>2. CASE \A d \in Ids : ~Create(d)
  <2>1. ASSUME NEW p \in Requests, req'[p].op = "exchange", Registered(req[p].sub)'
        PROVE  req'[p].seen.life = devices'[req'[p].sub].life
    <3>1. CASE req'[p] = req[p]
      BY <1>2, <2>1, <3>1, LivesStep, RequestFields DEF OneLife
    <3>2. CASE req'[p].seen = devices[req'[p].sub] /\ UNCHANGED devices
      BY <3>2
    <3> QED BY <2>1, <3>1, <3>2, HoldersStep
  <2>2. ASSUME NEW t \in tokens', Registered(t.sub)' PROVE t.life = devices'[t.sub].life
    <3>1. CASE t \in tokens
      BY <1>2, <2>2, <3>1, LivesStep DEF OneLife, TypeOK, Token
    <3>2. ASSUME NEW p \in Requests, req[p].op = "exchange", t = TokenFor(req[p].sub, req[p].seen)
          PROVE  t.life = devices'[t.sub].life
      <4>1. t.sub = req[p].sub /\ t.life = req[p].seen.life /\ t.sub \in Ids
        BY <3>2, RequestFields DEF TokenFor
      <4> QED BY <1>2, <2>2, <3>2, <4>1, LivesStep DEF OneLife
    <3> QED BY <3>1, <3>2, HoldersStep
  <2> QED BY <2>1, <2>2 DEF OneLife
<1> QED BY <1>1, <1>2

\* delete_device: "Its key and tokens stop working at once" holds of every device whose id is not
\* registered again while a token of it lives: the token accepted is of the current key.
THEOREM RegisteredAnewCorrect == Spec /\ RegisteredWhenForgotten => []AcceptedTokensHaveTheKey
<1>1. Init => OneLife
  BY DEF Init, OneLife, Idle
<1>2. TypeOK /\ OneLife /\ [Next]_vars /\ [\A d \in Ids : Create(d) => Forgotten(d)]_vars => OneLife'
  <2>1. UNCHANGED vars /\ OneLife => OneLife'
    BY DEF vars, OneLife, Registered
  <2> QED BY <2>1, OneLifeStep
<1>3. OneLife /\ RotationEndsTokens => AcceptedTokensHaveTheKey
  BY DEF OneLife, RotationEndsTokens, AcceptedTokensHaveTheKey, Accepted
<1> QED BY <1>1, <1>2, <1>3, TypeCorrect, RotationCorrect, PTL DEF Spec, RegisteredWhenForgotten
=============================================================================
