--------------------------- MODULE ChildEnv_proofs ---------------------------
(***************************************************************************)
(* Machine-checked proofs about ChildEnv, for any lists of variables, any   *)
(* values and any environment of the parent.                               *)
(***************************************************************************)
EXTENDS ChildEnv, SequenceTheorems, TLAPS

(***************************************************************************)
(* Items                                                                   *)
(***************************************************************************)
Values == Seq(Chunks)

(* An item is its key, an equals sign and its value, at these places.      *)
LEMMA ItemParts ==
    ASSUME NEW key \in Keys, NEW value \in Values
    PROVE  /\ Item(key, value) \in Texts
           /\ Len(Item(key, value)) = Len(value) + 2
           /\ Item(key, value)[1] = key /\ Item(key, value)[2] = "="
           /\ \A i \in 1 .. Len(value) : Item(key, value)[i + 2] = value[i]
           /\ SubSeq(Item(key, value), 1, 2) = <<key, "=">>
           /\ SubSeq(Item(key, value), 3, Len(Item(key, value))) = value
<1> DEFINE S    == Chunks \cup Keys
           head == <<key, "=">>
           item == Item(key, value)
<1>1. head \in Seq(S) /\ value \in Seq(S) /\ Len(head) = 2
  BY DEF Values, Chunks, Marks
<1>2. /\ item \in Seq(S)
      /\ Len(item) = 2 + Len(value)
      /\ \A i \in 1 .. 2 + Len(value) :
           item[i] = IF i <= 2 THEN head[i] ELSE value[i - 2]
  BY <1>1, ConcatProperties DEF Item
<1>3. Len(value) \in Nat  BY <1>1
<1>4. item[1] = key /\ item[2] = "="  BY <1>2, <1>3
<1>5. \A i \in 1 .. Len(value) : item[i + 2] = value[i]  BY <1>2, <1>3
<1>6. SubSeq(item, 1, 2) = head
  <2>1. /\ SubSeq(item, 1, 2) \in Seq(S) /\ Len(SubSeq(item, 1, 2)) = 2
        /\ \A i \in 1 .. 2 : SubSeq(item, 1, 2)[i] = item[i]
    BY <1>2, <1>3
  <2>2. \A i \in 1 .. 2 : SubSeq(item, 1, 2)[i] = head[i]
    BY <1>4, <2>1
  <2> HIDE DEF head
  <2> QED BY <1>1, <2>1, <2>2, SeqEqual
<1>7. SubSeq(item, 3, Len(item)) = value
  <2> DEFINE sub == SubSeq(item, 3, Len(item))
  <2>1. \A i \in 3 .. Len(item) : item[i] \in S  BY <1>2, <1>3
  <2>2. /\ sub \in Seq(S)
        /\ Len(sub) = IF 3 <= Len(item) THEN Len(item) - 3 + 1 ELSE 0
        /\ \A i \in 1 .. Len(item) - 3 + 1 : sub[i] = item[3 + i - 1]
    BY <1>2, <1>3, <2>1, SubSeqProperties
  <2>3. Len(sub) = Len(value)  BY <1>2, <1>3, <2>2
  <2>4. \A i \in 1 .. Len(value) : sub[i] = value[i]
    BY <1>2, <1>3, <1>5, <2>2
  <2> QED BY <1>1, <2>2, <2>3, <2>4, SeqEqual
<1> QED BY <1>2, <1>3, <1>4, <1>5, <1>6, <1>7 DEF Texts

(* strings.Cut finds the "=" after the key, whatever the value contains.    *)
LEMMA ItemCut ==
    ASSUME NEW key \in Keys, NEW value \in Values
    PROVE  Key(Item(key, value)) = key /\ Value(Item(key, value)) = value
<1> DEFINE item == Item(key, value)
<1>1. Len(value) \in Nat  BY DEF Values
<1>2. key # "="  BY ChildEnvAssumption DEF ChildEnvAssumption, Marks
<1>3. /\ 2 \in 1 .. Len(item)
      /\ item[2] = "=" /\ \A j \in 1 .. 2 - 1 : item[j] # "="
  BY <1>1, <1>2, ItemParts
<1>4. \A i \in 1 .. Len(item) :
        item[i] = "=" /\ (\A j \in 1 .. i - 1 : item[j] # "=") => i = 2
  BY <1>1, <1>2, <1>3, ItemParts
<1>5. Cut(item) = 2  BY <1>3, <1>4 DEF Cut
<1> QED BY <1>5, ItemParts DEF Key, Value

(***************************************************************************)
(* The invariant                                                           *)
(***************************************************************************)
Required == {TokenKey, HostKey} \cup Elements(Optional)

(* The value that a key has in the environment of the server, if any.       *)
Wanted(k) ==
    IF k = TokenKey THEN savedToken
    ELSE IF k = HostKey THEN WithScheme(defaultHost)
    ELSE parent[Fold[k]]

Present(k) ==
    k \notin {TokenKey, HostKey} =>
        /\ parent[Fold[k]] # Unset
        /\ k \in Elements(Optional) => parent[Fold[k]] # <<>>

Built    == {"emit", "running"}
Merging  == {"required", "allowed"} \cup Built
Settling == {"optional"} \cup Merging

InputInv ==
    /\ defaultHost \in Hosts /\ savedToken \in Tokens /\ parent \in Parents
    /\ pc \in Steps /\ next \in Nat \ {0}

AuthInv ==
    /\ pc = "auth" => auth = NoAuth
    /\ pc \in {"token", "host"} \cup Settling =>
         auth = [host |-> WithScheme(defaultHost), token |-> savedToken]
    /\ auth # NoAuth => auth.host # <<>> /\ auth.token # <<>>

(* The loops over the options and over the allow-list are past index i.     *)
OptionDone(i)  == pc \in Merging \/ (pc = "optional" /\ i < next)
AllowedOver(i) == pc \in Built \/ (pc = "allowed" /\ i < next)

(* What has been looked at is safe.                                        *)
SafeInv ==
    /\ pc \in {"host"} \cup Settling => Safe(savedToken)
    /\ pc \in Settling => Safe(WithScheme(defaultHost))
    /\ pc \in {"auth", "token", "host"} => next = 1
    /\ \A i \in 1 .. Len(Optional) :
         OptionDone(i) /\ Present(Optional[i]) => Safe(parent[Fold[Optional[i]]])

(* The items of the launcher: right ones only, and all that is due so far.  *)
Carries(k) == \E i \in 1 .. Len(env) : env[i] = Item(k, Wanted(k))

EnvInv ==
    /\ env \in Seq(Texts)
    /\ \A i \in 1 .. Len(env) :
         \E k \in Required : Present(k) /\ env[i] = Item(k, Wanted(k))
    /\ pc \in {"host"} \cup Settling => Carries(TokenKey)
    /\ pc \in Settling => Carries(HostKey)
    /\ \A i \in 1 .. Len(Optional) :
         OptionDone(i) /\ Present(Optional[i]) => Carries(Optional[i])

MergedInv ==
    /\ pc \notin Merging \cup {"failed"} => merged = [k \in {} |-> <<>>]
    /\ DOMAIN merged \in SUBSET Keys
    /\ \A k \in DOMAIN merged : Present(k) /\ merged[k] = Wanted(k)
    /\ pc = "required" =>
         \A i \in 1 .. Len(env) : i < next => Key(env[i]) \in DOMAIN merged
    /\ pc \in {"allowed"} \cup Built =>
         \A k \in Required : Present(k) => k \in DOMAIN merged
    /\ \A i \in 1 .. Len(Allowed) :
         AllowedOver(i) /\ Present(Allowed[i]) => Allowed[i] \in DOMAIN merged

OrderInv ==
    /\ order \in Seq(Keys)
    /\ \A i, j \in 1 .. Len(order) : order[i] = order[j] => i = j
    /\ Elements(order) = DOMAIN merged

ChildInv ==
    /\ child \in Seq(Texts)
    /\ pc \notin Built => child = <<>>
    /\ pc = "emit" => next = Len(child) + 1
    /\ pc = "running" => Len(child) = Len(order)
    /\ Len(child) <= Len(order)
    /\ \A i \in 1 .. Len(child) : child[i] = Item(order[i], merged[order[i]])

IInv ==
    InputInv /\ AuthInv /\ SafeInv /\ EnvInv /\ MergedInv /\ OrderInv /\ ChildInv

(***************************************************************************)
(* Values                                                                  *)
(***************************************************************************)
LEMMA WithSchemeValue ==
    ASSUME NEW host \in Values
    PROVE  /\ WithScheme(host) \in Values
           /\ WithScheme(host) # <<>> \/ host = <<>>
           /\ Safe(WithScheme(host)) => Safe(host)
<1>1. CASE Schemed(host)  BY <1>1 DEF WithScheme, Schemed
<1>2. CASE ~Schemed(host)
  <2> DEFINE head == <<"https", ":", "//">>
             full == head \o host
  <2>1. head \in Seq(Chunks) /\ host \in Seq(Chunks) /\ Len(head) = 3
    BY ChildEnvAssumption DEF ChildEnvAssumption, Values, Chunks, Marks
  <2>2. /\ full \in Seq(Chunks)
        /\ Len(full) = 3 + Len(host)
        /\ \A i \in 1 .. 3 + Len(host) :
             full[i] = IF i <= 3 THEN head[i] ELSE host[i - 3]
    BY <2>1, ConcatProperties
  <2>3. Len(host) \in Nat  BY <2>1
  <2>4. ASSUME NEW c, Has(host, c)  PROVE Has(full, c)
    <3>1. PICK i \in 1 .. Len(host) : host[i] = c  BY <2>4 DEF Has
    <3>2. i + 3 \in 1 .. Len(full) /\ full[i + 3] = c
      BY <2>2, <2>3, <3>1
    <3> QED BY <3>2 DEF Has
  <2>5. WithScheme(host) = full  BY <1>2 DEF WithScheme
  <2>6. full # <<>>  BY <2>2, <2>3
  <2> HIDE DEF full
  <2> QED BY <2>2, <2>4, <2>5, <2>6 DEF Safe, Values
<1> QED BY <1>1, <1>2

(* What the server should find under a name is a value, not a failure.     *)
LEMMA WantedValue ==
    ASSUME InputInv, NEW k \in Keys, Present(k)
    PROVE  Wanted(k) \in Values
<1>1. savedToken \in Values /\ defaultHost \in Values
  BY ChildEnvAssumption DEF ChildEnvAssumption, InputInv, Values
<1>2. k \notin {TokenKey, HostKey} => parent[Fold[k]] \in Values
  BY ChildEnvAssumption DEF ChildEnvAssumption, InputInv, Values, Present
<1> QED BY <1>1, <1>2, WithSchemeValue DEF Wanted

(***************************************************************************)
(* The steps, one part of the invariant at a time                          *)
(***************************************************************************)
LEMMA InitInv == Init => IInv
<1> SUFFICES ASSUME Init PROVE IInv  OBVIOUS
<1> USE DEF Init, Settling, Merging, Built
<1>1. InputInv /\ AuthInv /\ SafeInv
  BY DEF InputInv, AuthInv, SafeInv, OptionDone, Steps, NoAuth
<1>2. EnvInv /\ MergedInv
  BY DEF EnvInv, MergedInv, OptionDone, AllowedOver
<1>3. OrderInv /\ ChildInv
  BY DEF OrderInv, ChildInv, Elements
<1> QED BY <1>1, <1>2, <1>3 DEF IInv

(* No step changes the inputs, so what is wanted stays the same.           *)
LEMMA Frame ==
    ASSUME [Next]_vars
    PROVE  /\ UNCHANGED inputs
           /\ \A k : Wanted(k)' = Wanted(k) /\ Present(k)' = Present(k)
<1>1. UNCHANGED inputs
  BY DEF Next, vars, GetAuth, AppendToken, AppendHost, AppendOptional, RunServer,
         AddRequired, AddAllowed, AllowedDone, Emit
<1> QED BY <1>1 DEF inputs, Wanted, Present

(* Every step keeps the inputs as they are.                                *)
LEMMA InputStep == IInv /\ [Next]_vars => InputInv'
<1> SUFFICES ASSUME IInv, [Next]_vars PROVE InputInv'  OBVIOUS
<1>1. UNCHANGED inputs  BY Frame
<1>2. pc' \in Steps /\ next' \in Nat \ {0}
  BY DEF IInv, InputInv, Steps, Next, vars, GetAuth, AppendToken, AppendHost,
         AppendOptional, RunServer, AddRequired, AddAllowed, AllowedDone, Emit,
         AppendServerEnv, Fail
<1> QED BY <1>1, <1>2 DEF IInv, InputInv, inputs

(* Every step keeps what is known of the credentials.                      *)
LEMMA AuthStep == IInv /\ [Next]_vars => AuthInv'
<1> SUFFICES ASSUME IInv, [Next]_vars PROVE AuthInv'  OBVIOUS
<1>1. UNCHANGED inputs  BY Frame
<1> USE DEF IInv, AuthInv, Settling, Merging, Built
<1>2. CASE GetAuth
  <2>1. WithScheme(defaultHost) # <<>> \/ defaultHost = <<>>
    BY WithSchemeValue, ChildEnvAssumption
    DEF ChildEnvAssumption, InputInv, Values
  <2> QED BY <1>1, <1>2, <2>1 DEF GetAuth, Fail, inputs
<1>3. CASE ~GetAuth
  BY <1>1, <1>3
  DEF Next, vars, inputs, AppendToken, AppendHost, AppendOptional, RunServer,
      AddRequired, AddAllowed, AllowedDone, Emit, AppendServerEnv, Fail
<1> QED BY <1>2, <1>3

(* Every step keeps what was checked free of line breaks and NUL.          *)
LEMMA SafeStep == IInv /\ [Next]_vars => SafeInv'
<1> SUFFICES ASSUME IInv, [Next]_vars PROVE SafeInv'  OBVIOUS
<1>1. UNCHANGED inputs  BY Frame
<1>2. \A k : Present(k)' = Present(k)  BY Frame
<1> USE DEF IInv, InputInv, SafeInv, OptionDone, Settling, Merging, Built
<1>3. CASE GetAuth  BY <1>1, <1>3 DEF GetAuth, Fail, inputs
<1>4. CASE AppendToken
  BY <1>1, <1>4 DEF AppendToken, AppendServerEnv, AuthInv, Fail, inputs
<1>5. CASE AppendHost
  BY <1>1, <1>5 DEF AppendHost, AppendServerEnv, AuthInv, Fail, inputs
<1>6. CASE AppendOptional
  <2>1. CASE pc' = "failed"  BY <1>1, <1>6, <2>1 DEF inputs
  <2>2. CASE pc' # "failed"
    <3>1. /\ next \in 1 .. Len(Optional) \/ next = 0
          /\ pc' = "optional" /\ next' = next + 1
      BY <1>6, <2>2 DEF AppendOptional, AppendServerEnv, Fail
    <3>2. next # 0 /\ Present(Optional[next]) => Safe(parent[Fold[Optional[next]]])
      BY <1>6, <2>2, <3>1, ChildEnvAssumption
      DEF AppendOptional, AppendServerEnv, Fail, Present, Elements, LookupEnv,
          ChildEnvAssumption
    <3> QED BY <1>1, <1>2, <3>1, <3>2, <1>6 DEF inputs, AppendOptional
  <2> QED BY <2>1, <2>2
<1>7. CASE RunServer  BY <1>1, <1>2, <1>7 DEF RunServer, inputs
<1>8. CASE AddRequired \/ AddAllowed \/ AllowedDone \/ Emit \/ UNCHANGED vars
  BY <1>1, <1>2, <1>8
  DEF AddRequired, AddAllowed, AllowedDone, Emit, vars, inputs
<1> QED BY <1>3, <1>4, <1>5, <1>6, <1>7, <1>8 DEF Next

(* An item of a key that is due is appended.                               *)
LEMMA EnvAppend ==
    ASSUME IInv, [Next]_vars, NEW k \in Required, Present(k),
           env' = Append(env, Item(k, Wanted(k)))
    PROVE  /\ env' \in Seq(Texts)
           /\ \A i \in 1 .. Len(env') :
                \E j \in Required : (Present(j) /\ env[i] = Item(j, Wanted(j)))'
           /\ Carries(k)'
           /\ \A j : Carries(j) => Carries(j)'
<1> DEFINE item == Item(k, Wanted(k))
<1>1. k \in Keys  BY DEF Required, Keys
<1>2. item \in Texts  BY <1>1, WantedValue, ItemParts DEF IInv
<1>3. /\ env \in Seq(Texts)
      /\ \A i \in 1 .. Len(env) :
           \E j \in Required : Present(j) /\ env[i] = Item(j, Wanted(j))
  BY DEF IInv, EnvInv
<1>4. \A j : Wanted(j)' = Wanted(j) /\ Present(j)' = Present(j)  BY Frame
<1> HIDE DEF item
<1>5. /\ env' \in Seq(Texts) /\ Len(env') = Len(env) + 1 /\ Len(env) \in Nat
      /\ \A i \in 1 .. Len(env) : env'[i] = env[i]
      /\ env'[Len(env) + 1] = item
  BY <1>2, <1>3 DEF item
<1>6. \A j : Item(j, Wanted(j))' = Item(j, Wanted(j))  BY <1>4 DEF Item
<1>7. \A i \in 1 .. Len(env') :
        \E j \in Required : (Present(j) /\ env[i] = Item(j, Wanted(j)))'
  <2> SUFFICES ASSUME NEW i \in 1 .. Len(env')
               PROVE \E j \in Required : (Present(j) /\ env[i] = Item(j, Wanted(j)))'
    OBVIOUS
  <2>1. CASE i \in 1 .. Len(env)  BY <1>3, <1>4, <1>5, <1>6, <2>1
  <2>2. CASE i = Len(env) + 1  BY <1>4, <1>5, <1>6, <2>2 DEF item
  <2> QED BY <1>5, <2>1, <2>2
<1>8. Carries(k)'
  <2>1. Len(env) + 1 \in 1 .. Len(env') /\ env'[Len(env) + 1] = Item(k, Wanted(k))'
    BY <1>5, <1>6 DEF item
  <2> QED BY <2>1 DEF Carries
<1>9. ASSUME NEW j, Carries(j)  PROVE Carries(j)'
  <2>1. PICK i \in 1 .. Len(env) : env[i] = Item(j, Wanted(j))
    BY <1>9 DEF Carries
  <2>2. i \in 1 .. Len(env') /\ env'[i] = Item(j, Wanted(j))'
    BY <1>5, <1>6, <2>1
  <2> QED BY <2>2 DEF Carries
<1> QED BY <1>5, <1>7, <1>8, <1>9

(* The items stay as they are.                                             *)
LEMMA EnvSame ==
    ASSUME [Next]_vars, UNCHANGED env
    PROVE  /\ \A j : Carries(j)' = Carries(j)
           /\ \A j, i : (Present(j) /\ env[i] = Item(j, Wanted(j)))'
                          = (Present(j) /\ env[i] = Item(j, Wanted(j)))
<1>1. \A j : Wanted(j)' = Wanted(j) /\ Present(j)' = Present(j)  BY Frame
<1>2. \A j : Item(j, Wanted(j))' = Item(j, Wanted(j))  BY <1>1 DEF Item
<1> QED BY <1>1, <1>2 DEF Carries

(* Every step keeps what the items of the first list say.                  *)
LEMMA EnvStep == IInv /\ [Next]_vars => EnvInv'
<1> SUFFICES ASSUME IInv, [Next]_vars PROVE EnvInv'  OBVIOUS
<1>1. \A k : Present(k)' = Present(k)  BY Frame
<1>2. /\ Present(TokenKey) /\ Wanted(TokenKey) = savedToken
      /\ Present(HostKey) /\ Wanted(HostKey) = WithScheme(defaultHost)
      /\ TokenKey \in Required /\ HostKey \in Required
  BY ChildEnvAssumption DEF ChildEnvAssumption, Present, Wanted, Required
<1> USE DEF EnvInv, OptionDone, Settling, Merging, Built
<1>3. CASE UNCHANGED env /\ pc' = pc /\ next' = next
  BY <1>1, <1>3, EnvSame DEF IInv
<1>4. CASE UNCHANGED env /\ pc' = "failed"
  BY <1>1, <1>4, EnvSame DEF IInv
<1>5. CASE GetAuth /\ pc' # "failed"
  BY <1>1, <1>5, EnvSame DEF IInv, GetAuth, Fail
<1>6. CASE AppendToken /\ pc' # "failed"
  <2>1. /\ env' = Append(env, Item(TokenKey, Wanted(TokenKey)))
        /\ pc = "token" /\ pc' = "host"
    BY <1>2, <1>6 DEF AppendToken, AppendServerEnv, Fail, IInv, AuthInv
  <2> QED BY <1>1, <1>2, <2>1, EnvAppend DEF IInv
<1>7. CASE AppendHost /\ pc' # "failed"
  <2>1. /\ env' = Append(env, Item(HostKey, Wanted(HostKey)))
        /\ pc = "host" /\ pc' = "optional" /\ next' = 1
    BY <1>2, <1>7 DEF AppendHost, AppendServerEnv, Fail, IInv, AuthInv, SafeInv
  <2> QED BY <1>1, <1>2, <2>1, EnvAppend DEF IInv
<1>8. CASE AppendOptional /\ pc' # "failed"
  <2>1. PICK key : key = Optional[next]  OBVIOUS
  <2>2. /\ pc = "optional" /\ pc' = pc /\ next' = next + 1 /\ next <= Len(Optional)
        /\ \/ LookupEnv(key) \in {Unset, <<>>} /\ UNCHANGED env
           \/ /\ LookupEnv(key) \notin {Unset, <<>>}
              /\ env' = Append(env, Item(key, LookupEnv(key)))
    BY <1>8, <2>1 DEF AppendOptional, AppendServerEnv, Fail
  <2>3. next \in Nat \ {0} /\ Len(Optional) \in Nat
    BY ChildEnvAssumption DEF IInv, InputInv, ChildEnvAssumption
  <2>4. next \in 1 .. Len(Optional) /\ key \in Elements(Optional)
    BY <2>1, <2>2, <2>3 DEF Elements
  <2>5. /\ key \in Required
        /\ Wanted(key) = LookupEnv(key)
        /\ Present(key) <=> LookupEnv(key) \notin {Unset, <<>>}
    BY <2>4, ChildEnvAssumption
    DEF Required, ChildEnvAssumption, Wanted, Present, LookupEnv
  <2>6. CASE LookupEnv(key) \in {Unset, <<>>} /\ UNCHANGED env
    BY <1>1, <2>1, <2>2, <2>3, <2>5, <2>6, EnvSame DEF IInv
  <2>7. CASE /\ LookupEnv(key) \notin {Unset, <<>>}
             /\ env' = Append(env, Item(key, LookupEnv(key)))
    <3>1. /\ env' \in Seq(Texts)
          /\ \A i \in 1 .. Len(env') :
               \E j \in Required : (Present(j) /\ env[i] = Item(j, Wanted(j)))'
          /\ Carries(key)'
          /\ \A j : Carries(j) => Carries(j)'
      BY <2>5, <2>7, EnvAppend
    <3> QED BY <1>1, <2>1, <2>2, <2>3, <2>5, <3>1 DEF IInv
  <2> QED BY <2>2, <2>6, <2>7
<1>9. CASE RunServer
  <2>1. Len(Optional) \in Nat /\ next \in Nat
    BY ChildEnvAssumption DEF IInv, InputInv, ChildEnvAssumption
  <2>2. /\ pc = "optional" /\ next > Len(Optional) /\ UNCHANGED env
        /\ pc' = "required"
    BY <1>9 DEF RunServer
  <2>3. \A i \in 1 .. Len(Optional) : OptionDone(i)  BY <2>1, <2>2
  <2> QED BY <1>1, <2>2, <2>3, EnvSame DEF IInv
<1>10. CASE AddRequired \/ AddAllowed \/ AllowedDone \/ Emit
  BY <1>1, <1>10, EnvSame DEF AddRequired, AddAllowed, AllowedDone, Emit, IInv
<1>11. UNCHANGED vars => UNCHANGED env /\ pc' = pc /\ next' = next  BY DEF vars
<1>12. /\ pc' = "failed" /\ GetAuth => UNCHANGED env
       /\ pc' = "failed" /\ AppendToken => UNCHANGED env
       /\ pc' = "failed" /\ AppendHost => UNCHANGED env
       /\ pc' = "failed" /\ AppendOptional => UNCHANGED env
  BY DEF GetAuth, AppendToken, AppendHost, AppendOptional, AppendServerEnv, Fail
<1> QED
  BY <1>3, <1>4, <1>5, <1>6, <1>7, <1>8, <1>9, <1>10, <1>11, <1>12 DEF Next

(* The next item has a key that is due, and its value.                     *)
LEMMA NextItem ==
    ASSUME IInv, pc = "required", next <= Len(env)
    PROVE  /\ Key(env[next]) \in Required /\ Present(Key(env[next]))
           /\ Value(env[next]) = Wanted(Key(env[next]))
<1>1. next \in 1 .. Len(env)
  BY DEF IInv, InputInv, EnvInv
<1>2. PICK k \in Required : Present(k) /\ env[next] = Item(k, Wanted(k))
  BY <1>1 DEF IInv, EnvInv
<1>3. k \in Keys /\ Wanted(k) \in Values
  BY <1>2, WantedValue DEF IInv, Required, Keys
<1> QED BY <1>2, <1>3, ItemCut

(* The next key of the allow-list, which is no key of the launcher.         *)
LEMMA NextAllowed ==
    ASSUME IInv, pc = "allowed", next <= Len(Allowed)
    PROVE  /\ Allowed[next] \in Keys
           /\ Wanted(Allowed[next]) = LookupEnv(Allowed[next])
           /\ Present(Allowed[next]) <=> LookupEnv(Allowed[next]) # Unset
<1>1. next \in 1 .. Len(Allowed)
  BY ChildEnvAssumption DEF IInv, InputInv, ChildEnvAssumption
<1>2. Allowed[next] \in Elements(Allowed)  BY <1>1 DEF Elements
<1> QED
  BY <1>2, ChildEnvAssumption
  DEF ChildEnvAssumption, Wanted, Present, LookupEnv, Keys

(* The key k is put into the map with its value.                           *)
Adds(k) ==
    /\ Present(k) /\ Add(k, Wanted(k))
    /\ pc' = pc /\ next' = next + 1 /\ UNCHANGED env
    /\ pc = "required" => k = Key(env[next])
    /\ pc = "allowed" => k = Allowed[next]
    /\ pc \in {"required", "allowed"}

(* Every step either leaves the map alone or adds a key that is due with    *)
(* its value.                                                              *)
LEMMA MapStep ==
    ASSUME IInv, [Next]_vars
    PROVE  \/ UNCHANGED <<merged, order>>
           \/ \E k \in Keys : Adds(k)
<1>1. CASE AddRequired
  BY <1>1, NextItem DEF AddRequired, Required, Keys, Adds
<1>2. CASE AddAllowed
  BY <1>2, NextAllowed DEF AddAllowed, Adds
<1>3. CASE ~AddRequired /\ ~AddAllowed
  BY <1>3
  DEF Next, vars, GetAuth, AppendToken, AppendHost, AppendOptional, RunServer,
      AllowedDone, Emit, AppendServerEnv, Fail
<1> QED BY <1>1, <1>2, <1>3

(* Every step keeps each merged variable in the order of the output, once. *)
LEMMA OrderStep == IInv /\ [Next]_vars => OrderInv'
<1> SUFFICES ASSUME IInv, [Next]_vars PROVE OrderInv'  OBVIOUS
<1>1. OrderInv  BY DEF IInv
<1>2. CASE UNCHANGED <<merged, order>>  BY <1>1, <1>2 DEF OrderInv, Elements
<1>3. ASSUME NEW k \in Keys, Adds(k)  PROVE OrderInv'
  <2>1. DOMAIN merged' = DOMAIN merged \cup {k}  BY <1>3 DEF Add, Adds
  <2>2. CASE k \in DOMAIN merged
    BY <1>1, <1>3, <2>1, <2>2 DEF OrderInv, Elements, Add, Adds
  <2>3. CASE k \notin DOMAIN merged
    <3>1. /\ order' \in Seq(Keys)
          /\ Len(order) \in Nat /\ Len(order') = Len(order) + 1
          /\ \A i \in 1 .. Len(order) : order'[i] = order[i]
          /\ order'[Len(order) + 1] = k
      BY <1>1, <1>3, <2>3 DEF OrderInv, Add, Adds
    <3>2. \A i \in 1 .. Len(order) : order[i] # k
      BY <1>1, <2>3 DEF OrderInv, Elements
    <3>3. Elements(order') = Elements(order) \cup {k}
      BY <3>1 DEF Elements
    <3>4. \A i, j \in 1 .. Len(order') : order'[i] = order'[j] => i = j
      BY <1>1, <3>1, <3>2 DEF OrderInv
    <3> QED BY <1>1, <2>1, <3>1, <3>3, <3>4 DEF OrderInv, Elements
  <2> QED BY <2>2, <2>3
<1> QED BY <1>2, <1>3, MapStep

(* Every step keeps the merged variables the wanted ones.                  *)
LEMMA MergedStep == IInv /\ [Next]_vars => MergedInv'
<1> SUFFICES ASSUME IInv, [Next]_vars PROVE MergedInv'  OBVIOUS
<1>1. \A k : Wanted(k)' = Wanted(k) /\ Present(k)' = Present(k)  BY Frame
<1>2. next \in Nat \ {0} /\ Len(Allowed) \in Nat /\ Len(env) \in Nat
  BY ChildEnvAssumption DEF ChildEnvAssumption, IInv, InputInv, EnvInv
<1>3. MergedInv  BY DEF IInv
<1> USE DEF MergedInv, AllowedOver, Merging, Built
<1>4. ASSUME NEW k \in Keys, Adds(k)  PROVE MergedInv'
  <2>1. /\ DOMAIN merged' = DOMAIN merged \cup {k}
        /\ \A j \in DOMAIN merged' :
             merged'[j] = IF j = k THEN Wanted(k) ELSE merged[j]
    BY <1>4 DEF Add, Adds
  <2>2. CASE pc = "required"  BY <1>1, <1>2, <1>3, <1>4, <2>1, <2>2 DEF Adds
  <2>3. CASE pc = "allowed"  BY <1>1, <1>2, <1>3, <1>4, <2>1, <2>3 DEF Adds
  <2> QED BY <1>4, <2>2, <2>3 DEF Adds
<1>5. CASE UNCHANGED <<merged, order>>
  <2>1. CASE AddRequired
    <3>1. pc = "required"  BY <2>1 DEF AddRequired
    <3>2. CASE next > Len(env)
      <4>1. ASSUME NEW k \in Required, Present(k)  PROVE k \in DOMAIN merged
        <5>1. PICK i \in 1 .. Len(env) : env[i] = Item(k, Wanted(k))
          <6>1. Carries(TokenKey) /\ Carries(HostKey)
            BY <3>1 DEF IInv, EnvInv, Settling
          <6>2. \A m \in 1 .. Len(Optional) :
                  Present(Optional[m]) => Carries(Optional[m])
            BY <3>1 DEF IInv, EnvInv, OptionDone
          <6>3. Carries(k)  BY <4>1, <6>1, <6>2 DEF Required, Elements
          <6> QED BY <6>3 DEF Carries
        <5>2. Key(env[i]) = k
          BY <4>1, <5>1, WantedValue, ItemCut DEF IInv, Required, Keys
        <5> QED BY <1>2, <1>3, <3>1, <3>2, <5>1, <5>2
      <4> QED BY <1>1, <1>2, <1>3, <1>5, <2>1, <3>2, <4>1 DEF AddRequired
    <3>3. CASE next <= Len(env)
      <4>1. Add(Key(env[next]), Value(env[next]))
            /\ next' = next + 1 /\ pc' = pc /\ UNCHANGED env
        BY <1>2, <2>1, <3>3 DEF AddRequired
      <4>2. Key(env[next]) \in DOMAIN merged
        BY <1>5, <4>1 DEF Add
      <4> QED BY <1>1, <1>2, <1>3, <1>5, <3>1, <4>1, <4>2
    <3> QED BY <1>2, <3>2, <3>3
  <2>2. CASE AddAllowed
    <3>1. /\ pc = "allowed" /\ pc' = pc /\ next' = next + 1
          /\ next <= Len(Allowed) /\ UNCHANGED env
      BY <2>2 DEF AddAllowed
    <3>2. Present(Allowed[next]) => Allowed[next] \in DOMAIN merged
      BY <1>5, <2>2, <3>1, NextAllowed DEF AddAllowed, Add
    <3> QED BY <1>1, <1>2, <1>3, <1>5, <3>1, <3>2
  <2>3. CASE AllowedDone
    <3>1. /\ pc = "allowed" /\ pc' = "emit" /\ next > Len(Allowed) /\ UNCHANGED env
      BY <2>3 DEF AllowedDone
    <3>2. \A i \in 1 .. Len(Allowed) : AllowedOver(i)  BY <1>2, <3>1
    <3> QED BY <1>1, <1>3, <1>5, <3>1, <3>2
  <2>4. CASE Emit
    BY <1>1, <1>3, <1>5, <2>4 DEF Emit
  <2>5. CASE GetAuth \/ AppendToken \/ AppendHost \/ AppendOptional
    BY <1>1, <1>3, <1>5, <2>5
    DEF GetAuth, AppendToken, AppendHost, AppendOptional, AppendServerEnv, Fail
  <2>6. CASE RunServer
    BY <1>1, <1>2, <1>3, <1>5, <2>6 DEF RunServer
  <2>7. CASE UNCHANGED vars
    BY <1>1, <1>3, <2>7 DEF vars
  <2> QED BY <2>1, <2>2, <2>3, <2>4, <2>5, <2>6, <2>7 DEF Next
<1> QED BY <1>4, <1>5, MapStep

(* Every step keeps the emitted items the merged variables.                *)
LEMMA ChildStep == IInv /\ [Next]_vars => ChildInv'
<1> SUFFICES ASSUME IInv, [Next]_vars PROVE ChildInv'  OBVIOUS
<1>1. /\ order \in Seq(Keys) /\ child \in Seq(Texts)
      /\ Len(order) \in Nat /\ Len(child) \in Nat
      /\ Len(child) <= Len(order) /\ next \in Nat \ {0}
  BY DEF IInv, OrderInv, ChildInv, InputInv
<1> USE DEF ChildInv, Built
<1>2. CASE Emit
  <2>1. CASE next > Len(order)
    BY <1>1, <1>2, <2>1 DEF Emit, IInv, Item
  <2>2. CASE next <= Len(order)
    <3>1. PICK item : item = Item(order[next], merged[order[next]])  OBVIOUS
    <3>2. /\ pc = "emit" /\ pc' = pc /\ next' = next + 1
          /\ child' = Append(child, item) /\ UNCHANGED <<order, merged>>
      BY <1>1, <1>2, <2>2, <3>1 DEF Emit
    <3>3. item \in Texts
      <4>1. next \in 1 .. Len(order)  BY <1>1, <2>2
      <4>2. order[next] \in Keys /\ order[next] \in DOMAIN merged
        BY <1>1, <4>1 DEF IInv, OrderInv, Elements
      <4>3. merged[order[next]] \in Values
        BY <4>2, WantedValue DEF IInv, MergedInv
      <4> QED BY <3>1, <4>2, <4>3, ItemParts
    <3>4. next = Len(child) + 1
          /\ \A i \in 1 .. Len(child) : child[i] = Item(order[i], merged[order[i]])
      BY <3>2 DEF IInv
    <3>5. /\ child' \in Seq(Texts) /\ Len(child') = Len(child) + 1
          /\ \A i \in 1 .. Len(child) : child'[i] = child[i]
          /\ child'[next] = item
      BY <1>1, <3>2, <3>3, <3>4
    <3>6. \A i \in 1 .. Len(child') :
            child'[i] = Item(order[i], merged[order[i]])
      BY <1>1, <3>1, <3>4, <3>5
    <3> QED BY <1>1, <2>2, <3>2, <3>4, <3>5, <3>6 DEF Item
  <2> QED BY <1>1, <2>1, <2>2
<1>3. CASE AllowedDone
  BY <1>1, <1>3 DEF AllowedDone, IInv
<1>4. CASE AddRequired \/ AddAllowed
  <2>1. child = <<>> /\ child' = child /\ pc' \in {"required", "allowed"}
    BY <1>4 DEF AddRequired, AddAllowed, IInv
  <2>2. Len(order') \in Nat  BY OrderStep DEF OrderInv
  <2> QED BY <2>1, <2>2
<1>5. CASE GetAuth \/ AppendToken \/ AppendHost \/ AppendOptional \/ RunServer
  <2>1. child = <<>> /\ child' = child /\ order' = order /\ pc' \notin Built
    BY <1>5
    DEF GetAuth, AppendToken, AppendHost, AppendOptional, RunServer,
        AppendServerEnv, Fail, IInv
  <2> QED BY <1>1, <2>1
<1>6. CASE UNCHANGED vars
  BY <1>6 DEF vars, IInv, Item
<1> QED BY <1>2, <1>3, <1>4, <1>5, <1>6 DEF Next

(***************************************************************************)
(* The theorems                                                            *)
(***************************************************************************)
(* All that runWithRunner and buildChildProcessEnv keep between two steps   *)
(* of theirs.                                                              *)
THEOREM Invariant == Spec => []IInv
<1>1. Init => IInv  BY InitInv
<1>2. IInv /\ [Next]_vars => IInv'
  BY InputStep, AuthStep, SafeStep, EnvStep, MergedStep, OrderStep, ChildStep DEF IInv
<1> QED BY <1>1, <1>2, PTL DEF Spec

(* Types; a host and a token that are used are never empty.                 *)
THEOREM TypeThm == Spec => []TypeOK
<1>1. IInv => TypeOK
  <2> SUFFICES ASSUME IInv PROVE TypeOK  OBVIOUS
  <2>1. \A k \in DOMAIN merged : merged[k] \in Texts
    <3> SUFFICES ASSUME NEW k \in DOMAIN merged PROVE merged[k] \in Texts
      OBVIOUS
    <3>1. merged[k] \in Values  BY WantedValue DEF IInv, MergedInv
    <3> QED BY <3>1 DEF Values, Texts
  <2> QED
    BY <2>1 DEF IInv, InputInv, AuthInv, EnvInv, MergedInv, OrderInv, ChildInv, TypeOK
<1> QED BY <1>1, Invariant, PTL

(* No server is started with a line break in its credentials or options.    *)
THEOREM UnsafeRefusedThm == Spec => []UnsafeRefused
<1>1. IInv => UnsafeRefused
  <2> SUFFICES ASSUME IInv, pc = "running",
                      NEW value \in {savedToken, defaultHost}
                                      \cup {parent[Fold[k]] : k \in Elements(Optional)},
                      value # Unset
               PROVE  Safe(value)
    BY DEF UnsafeRefused, Safe
  <2>1. CASE value = savedToken
    BY <2>1 DEF IInv, SafeInv, Settling, Merging, Built
  <2>2. CASE value = defaultHost
    <3>1. defaultHost \in Values
      BY ChildEnvAssumption DEF ChildEnvAssumption, IInv, InputInv, Values
    <3> QED
      BY <2>2, <3>1, WithSchemeValue DEF IInv, SafeInv, Settling, Merging, Built
  <2>3. CASE \E k \in Elements(Optional) : value = parent[Fold[k]]
    <3>1. PICK i \in 1 .. Len(Optional) : value = parent[Fold[Optional[i]]]
      BY <2>3 DEF Elements
    <3>2. CASE value = <<>>  BY <3>2 DEF Safe, Has
    <3>3. CASE value # <<>>
      <4>1. Present(Optional[i])  BY <3>1, <3>3 DEF Present
      <4>2. OptionDone(i)  BY DEF OptionDone, Merging, Built
      <4> QED BY <3>1, <4>1, <4>2 DEF IInv, SafeInv
    <3> QED BY <3>2, <3>3
  <2> QED BY <2>1, <2>2, <2>3
<1> QED BY <1>1, Invariant, PTL

(* What is due under a name is what is meant to be there.                   *)
LEMMA DueIsMeant ==
    ASSUME IInv, NEW name \in Names
    PROVE  {Wanted(k) : k \in {j \in Keys : Present(j) /\ Fold[j] = name}}
             = {Meant(name)} \ {Unset}
<1> USE ChildEnvAssumption DEF ChildEnvAssumption
<1> DEFINE due == {j \in Keys : Present(j) /\ Fold[j] = name}
<1>1. Unset \notin Values  BY DEF Values
<1>2. \A k \in due : Wanted(k) # Unset  BY <1>1, WantedValue DEF IInv
<1>3. CASE name = Fold[TokenKey]
  <2>1. due = {TokenKey}  BY <1>3 DEF Present, Keys
  <2>2. Meant(name) = Wanted(TokenKey)  BY <1>3 DEF Meant, Wanted
  <2> QED BY <1>2, <2>1, <2>2
<1>4. CASE name = Fold[HostKey]
  <2>1. due = {HostKey} /\ name # Fold[TokenKey]  BY <1>4 DEF Present, Keys
  <2>2. Meant(name) = Wanted(HostKey)  BY <1>4, <2>1 DEF Meant, Wanted
  <2> QED BY <1>2, <2>1, <2>2
<1>5. CASE name \notin {Fold[TokenKey], Fold[HostKey]}
  <2>1. \A k \in Keys : Fold[k] = name => Wanted(k) = parent[name]
    BY <1>5 DEF Wanted
  <2>2. PICK k \in Keys : name = Fold[k]  BY DEF Names
  <2>3. k \notin {TokenKey, HostKey}  BY <1>5, <2>2
  <2>4. CASE k \in Elements(Optional)
    <3>1. \A j \in Keys : Fold[j] = name => j = k  BY <2>2, <2>4
    <3>2. CASE parent[name] \in {Unset, <<>>}
      <4>1. due = {}  BY <2>2, <2>3, <2>4, <3>1, <3>2 DEF Present
      <4>2. Meant(name) = Unset  BY <1>5, <2>2, <2>4, <3>2 DEF Meant
      <4> QED BY <4>1, <4>2
    <3>3. CASE parent[name] \notin {Unset, <<>>}
      <4>1. due = {k}  BY <2>2, <2>3, <2>4, <3>1, <3>3 DEF Present
      <4>2. Meant(name) = parent[name]  BY <1>5, <3>3 DEF Meant
      <4> QED BY <2>1, <2>2, <3>3, <4>1, <4>2
    <3> QED BY <3>2, <3>3
  <2>5. CASE k \notin Elements(Optional)
    <3>1. \A j \in Keys : Fold[j] = name =>
             j \notin Elements(Optional) /\ j \notin {TokenKey, HostKey}
      BY <1>5, <2>2, <2>5
    <3>2. Meant(name) = parent[name]
      BY <1>5, <3>1 DEF Meant, Keys
    <3>3. \A j \in Keys : Fold[j] = name => (Present(j) <=> parent[name] # Unset)
      BY <3>1 DEF Present
    <3>4. CASE parent[name] = Unset
      <4>1. due = {}  BY <3>3, <3>4
      <4> QED BY <3>2, <3>4, <4>1
    <3>5. CASE parent[name] # Unset
      <4>1. k \in due /\ \A j \in due : Wanted(j) = parent[name]
        BY <2>1, <2>2, <3>3, <3>5
      <4> QED BY <3>2, <3>5, <4>1
    <3> QED BY <3>4, <3>5
  <2> QED BY <2>4, <2>5
<1> QED BY <1>3, <1>4, <1>5

(* The server gets the credentials, the options and the allow-list of the   *)
(* parent, each once and as they are, and nothing else, whatever values     *)
(* contain and whichever names the system takes for one.                   *)
THEOREM ChildExactThm == Spec => []ChildExact
<1>1. IInv => ChildExact
  <2> SUFFICES ASSUME IInv, pc = "running" PROVE ChildExact
    BY DEF ChildExact
  <2>1. Len(child) = Len(order) /\ Len(child) \in Nat
    BY DEF IInv, ChildInv
  <2>2. \A k \in Keys : k \in DOMAIN merged <=> Present(k)
    <3>1. \A k \in Required : Present(k) => k \in DOMAIN merged
      BY DEF IInv, MergedInv, Built
    <3>2. \A k \in Elements(Allowed) : Present(k) => k \in DOMAIN merged
      BY DEF IInv, MergedInv, AllowedOver, Built, Elements
    <3> QED BY <3>1, <3>2 DEF IInv, MergedInv, Keys, Required
  <2>3. \A i \in 1 .. Len(child) :
          /\ order[i] \in Keys /\ Present(order[i]) /\ Wanted(order[i]) \in Values
          /\ child[i] = Item(order[i], Wanted(order[i]))
    <3> SUFFICES ASSUME NEW i \in 1 .. Len(child)
                 PROVE  /\ order[i] \in Keys /\ Present(order[i])
                        /\ Wanted(order[i]) \in Values
                        /\ child[i] = Item(order[i], Wanted(order[i]))
      OBVIOUS
    <3>1. order[i] \in DOMAIN merged /\ order[i] \in Keys
      BY <2>1 DEF IInv, OrderInv, Elements
    <3>2. Present(order[i]) /\ merged[order[i]] = Wanted(order[i])
      BY <3>1 DEF IInv, MergedInv
    <3> QED BY <3>1, <3>2, WantedValue DEF IInv, ChildInv
  <2>4. \A k \in Keys : Present(k) => \E i \in 1 .. Len(child) : order[i] = k
    BY <2>1, <2>2 DEF IInv, OrderInv, Elements
  <2>5. \A i \in 1 .. Len(child) :
          /\ child[i][1] = order[i]
          /\ SubSeq(child[i], 1, 2) = <<order[i], "=">>
          /\ SubSeq(child[i], 3, Len(child[i])) = Wanted(order[i])
    BY <2>3, ItemParts
  <2>6. ASSUME NEW name \in Names  PROVE Found(name) = {Meant(name)} \ {Unset}
    <3> DEFINE here == {j \in 1 .. Len(child) : Fold[order[j]] = name}
               due  == {j \in Keys : Present(j) /\ Fold[j] = name}
    <3>1. {j \in 1 .. Len(child) :
             \E k \in Keys : Fold[k] = name /\ SubSeq(child[j], 1, 2) = <<k, "=">>}
          = here
      BY <2>3, <2>5
    <3>2. Found(name) = {SubSeq(child[i], 3, Len(child[i])) : i \in here}
      BY <3>1 DEF Found
    <3>3. {SubSeq(child[i], 3, Len(child[i])) : i \in here} = {Wanted(k) : k \in due}
      <4>1. ASSUME NEW i \in here
            PROVE  SubSeq(child[i], 3, Len(child[i])) \in {Wanted(k) : k \in due}
        BY <2>3, <2>5
      <4>2. ASSUME NEW k \in due
            PROVE  Wanted(k) \in {SubSeq(child[i], 3, Len(child[i])) : i \in here}
        <5>1. PICK i \in 1 .. Len(child) : order[i] = k  BY <2>4
        <5> QED BY <2>5, <5>1
      <4> QED BY <4>1, <4>2
    <3> QED BY <3>2, <3>3, DueIsMeant
  <2>7. \A i \in 1 .. Len(child) :
          /\ child[i][1] \in Keys
          /\ \A j \in 1 .. i - 1 : child[j][1] # child[i][1]
    BY <2>1, <2>3, <2>5 DEF IInv, OrderInv
  <2> QED BY <2>6, <2>7 DEF ChildExact
<1> QED BY <1>1, Invariant, PTL
=============================================================================
