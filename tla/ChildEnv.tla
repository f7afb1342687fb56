------------------------------- MODULE ChildEnv -------------------------------
(***************************************************************************)
(* The environment of the server: getAuthDetails (auth.go), the variables   *)
(* that runWithRunner collects (main.go), and buildChildProcessEnv          *)
(* (server.go), which merges them with an allow-list of the parent's.       *)
(*                                                                         *)
(* A text is a sequence of chunks: words, numbers, and the marks the code   *)
(* looks for.  An item is the text KEY=VALUE.                              *)
(* Definitions named Faulty... are the code with one plausible mistake.    *)
(***************************************************************************)
EXTENDS Naturals, Sequences

CONSTANTS
    Words, Numbers,         \* chunks that begin with a letter, with a digit
    TokenKey, HostKey,      \* GITHUB_PERSONAL_ACCESS_TOKEN, GITHUB_HOST
    Optional,               \* optionalEnvVars
    Allowed,                \* allowedParentEnvKeys
    Fold,                   \* the name under which the system finds a key
    Hosts, Tokens,          \* what go-gh may answer, possibly nothing
    Parents,                \* environments of the parent process
    Unset                   \* a variable that is not there

Elements(s) == {s[i] : i \in 1 .. Len(s)}

Keys   == {TokenKey, HostKey} \cup Elements(Optional) \cup Elements(Allowed)
Marks  == {":", "//", "=", "NUL", "\n"}
Chunks == Words \cup Numbers \cup Marks
Texts  == Seq(Chunks \cup Keys)
Names  == {Fold[k] : k \in Keys}

ASSUME ChildEnvAssumption ==
    /\ (Words \cup Keys) \cap (Numbers \cup Marks) = {}
    /\ TokenKey # HostKey
    /\ {TokenKey, HostKey} \cap (Elements(Optional) \cup Elements(Allowed)) = {}
    /\ Elements(Optional) \cap Elements(Allowed) = {}
    /\ Optional \in Seq(Elements(Optional)) /\ Allowed \in Seq(Elements(Allowed))
    /\ \A k \in {TokenKey, HostKey} \cup Elements(Optional), j \in Keys :
         Fold[j] = Fold[k] => j = k
    /\ Hosts \subseteq Seq(Chunks) /\ Tokens \subseteq Seq(Chunks)
    /\ "https" \in Words
    /\ \A p \in Parents : \A k \in Keys :
         /\ Fold[k] \in DOMAIN p
         /\ p[Fold[k]] = Unset \/ p[Fold[k]] \in Seq(Chunks)
    /\ Unset \notin Seq(Chunks)

VARIABLES
    defaultHost, savedToken,   \* what go-gh answers
    parent,                    \* the environment of this process
    pc,
    auth,                      \* authDetails
    env,                       \* the items of runWithRunner
    next,                      \* the index of the loop that runs
    merged, order,             \* the variables of buildChildProcessEnv
    child                      \* its result

inputs == <<defaultHost, savedToken, parent>>
vars   == <<inputs, pc, auth, env, next, merged, order, child>>

Steps  == {"auth", "token", "host", "optional", "required", "allowed", "emit",
           "running", "failed"}
NoAuth == [host |-> <<>>, token |-> <<>>]

TypeOK ==
    /\ defaultHost \in Hosts /\ savedToken \in Tokens /\ parent \in Parents
    /\ pc \in Steps
    /\ auth # NoAuth => auth.host # <<>> /\ auth.token # <<>>
    /\ env \in Seq(Texts)
    /\ next \in Nat
    /\ DOMAIN merged \in SUBSET Keys
    /\ \A k \in DOMAIN merged : merged[k] \in Texts
    /\ order \in Seq(Keys)
    /\ \A i, j \in 1 .. Len(order) : order[i] = order[j] => i = j
    /\ Elements(order) = DOMAIN merged
    /\ child \in Seq(Texts)

Init ==
    /\ defaultHost \in Hosts /\ savedToken \in Tokens /\ parent \in Parents
    /\ pc = "auth"
    /\ auth = NoAuth
    /\ env = <<>> /\ next = 1
    /\ merged = [k \in {} |-> <<>>] /\ order = <<>>
    /\ child = <<>>

Has(text, chunk) == \E i \in 1 .. Len(text) : text[i] = chunk

Fail == pc' = "failed" /\ UNCHANGED <<auth, env, next, merged, order, child>>

(***************************************************************************)
(* getAuthDetails                                                          *)
(***************************************************************************)

(* url.Parse succeeds and finds a scheme: a word before the first colon.    *)
(* It refuses control characters, and a port that is not a number.         *)
Schemed(host) ==
    /\ ~Has(host, "NUL") /\ ~Has(host, "\n")
    /\ Len(host) > 1 /\ host[1] \in Words /\ host[2] = ":"
    /\ \A i \in 4 .. Len(host) - 1 :
         host[3] = "//" /\ host[i] = ":" => host[i + 1] \in Numbers

WithScheme(host) ==
    IF Schemed(host) THEN host ELSE <<"https", ":", "//">> \o host

GetAuth ==
    /\ pc = "auth"
    /\ \/ (defaultHost = <<>> \/ savedToken = <<>>) /\ Fail
       \/ /\ defaultHost # <<>> /\ savedToken # <<>>
          /\ auth' = [host |-> WithScheme(defaultHost), token |-> savedToken]
          /\ pc' = "token"
          /\ UNCHANGED <<env, next, merged, order, child>>
    /\ UNCHANGED inputs

(***************************************************************************)
(* runWithRunner                                                           *)
(***************************************************************************)

(* key + "=" + value                                                       *)
Item(key, value) == <<key, "=">> \o value

(* Faulty: only NUL bytes are refused.                                     *)
FaultySafe(value) == ~Has(value, "NUL")

(* validateServerEnvValue                                                  *)
Safe(value) == ~Has(value, "NUL") /\ ~Has(value, "\n")

(* appendServerEnv, then on to the step `to' of the launcher.              *)
AppendServerEnv(key, value, to) ==
    \/ ~Safe(value) /\ Fail
    \/ /\ Safe(value)
       /\ env' = Append(env, Item(key, value))
       /\ to
       /\ UNCHANGED <<auth, merged, order, child>>

AppendToken ==
    /\ pc = "token"
    /\ AppendServerEnv(TokenKey, auth.token, pc' = "host" /\ UNCHANGED next)
    /\ UNCHANGED inputs

AppendHost ==
    /\ pc = "host"
    /\ AppendServerEnv(HostKey, auth.host, pc' = "optional" /\ UNCHANGED next)
    /\ UNCHANGED inputs

(* os.LookupEnv                                                            *)
LookupEnv(key) == parent[Fold[key]]

(* An optional variable that is empty counts as not set.                   *)
AppendOptional ==
    /\ pc = "optional"
    /\ next <= Len(Optional)
    /\ LET value == LookupEnv(Optional[next]) IN
       \/ /\ value \in {Unset, <<>>}
          /\ next' = next + 1
          /\ UNCHANGED <<pc, auth, env, merged, order, child>>
       \/ /\ value \notin {Unset, <<>>}
          /\ AppendServerEnv(Optional[next], value, next' = next + 1 /\ UNCHANGED pc)
    /\ UNCHANGED inputs

(* The bundled server is unpacked here; ServerLifecycle has these steps.   *)
RunServer ==
    /\ pc = "optional"
    /\ next > Len(Optional)
    /\ next' = 1
    /\ pc' = "required"
    /\ UNCHANGED <<inputs, auth, env, merged, order, child>>

(***************************************************************************)
(* buildChildProcessEnv                                                    *)
(***************************************************************************)

(* Faulty: an item is cut at its last "=".                                 *)
FaultyCut(item) ==
    CHOOSE i \in 1 .. Len(item) :
        item[i] = "=" /\ \A j \in i + 1 .. Len(item) : item[j] # "="

(* strings.Cut: where the first "=" of an item is.                         *)
Cut(item) ==
    CHOOSE i \in 1 .. Len(item) :
        item[i] = "=" /\ \A j \in 1 .. i - 1 : item[j] # "="

Key(item)   == item[Cut(item) - 1]
Value(item) == SubSeq(item, Cut(item) + 1, Len(item))

(* The closure add: the first occurrence gives the place, the last one the  *)
(* value.                                                                  *)
Add(key, value) ==
    /\ merged' = [k \in DOMAIN merged \cup {key} |->
                    IF k = key THEN value ELSE merged[k]]
    /\ order' = IF key \in DOMAIN merged THEN order ELSE Append(order, key)

(* An item without key or "=" would be skipped; AppendServerEnv makes none. *)
AddRequired ==
    /\ pc = "required"
    /\ \/ /\ next <= Len(env)
          /\ Add(Key(env[next]), Value(env[next]))
          /\ next' = next + 1
          /\ UNCHANGED pc
       \/ /\ next > Len(env)
          /\ next' = 1
          /\ pc' = "allowed"
          /\ UNCHANGED <<merged, order>>
    /\ UNCHANGED <<inputs, auth, env, child>>

(* A variable of the allow-list that is empty counts as set.               *)
AddAllowed ==
    /\ pc = "allowed"
    /\ next <= Len(Allowed)
    /\ LET key == Allowed[next] IN
       \/ /\ key \notin DOMAIN merged /\ LookupEnv(key) # Unset
          /\ Add(key, LookupEnv(key))
       \/ /\ key \in DOMAIN merged \/ LookupEnv(key) = Unset
          /\ UNCHANGED <<merged, order>>
    /\ next' = next + 1
    /\ UNCHANGED <<inputs, pc, auth, env, child>>

AllowedDone ==
    /\ pc = "allowed"
    /\ next > Len(Allowed)
    /\ next' = 1
    /\ pc' = "emit"
    /\ UNCHANGED <<inputs, auth, env, merged, order, child>>

(* The items in their order; the process is started with them.             *)
Emit ==
    /\ pc = "emit"
    /\ \/ /\ next <= Len(order)
          /\ child' = Append(child, Item(order[next], merged[order[next]]))
          /\ next' = next + 1
          /\ UNCHANGED pc
       \/ /\ next > Len(order)
          /\ pc' = "running"
          /\ UNCHANGED <<next, child>>
    /\ UNCHANGED <<inputs, auth, env, merged, order>>

Next ==
    \/ GetAuth \/ AppendToken \/ AppendHost \/ AppendOptional \/ RunServer
    \/ AddRequired \/ AddAllowed \/ AllowedDone \/ Emit

Spec == Init /\ [][Next]_vars

(***************************************************************************)
(* Properties                                                              *)
(***************************************************************************)

(* What the server may find under a name: exec keeps one of the items whose *)
(* keys are that name to the system.                                       *)
Found(name) ==
    {SubSeq(child[i], 3, Len(child[i])) :
        i \in {j \in 1 .. Len(child) :
                 \E k \in Keys : Fold[k] = name /\ SubSeq(child[j], 1, 2) = <<k, "=">>}}

(* What it should find there: the credentials, the optional variables that  *)
(* are not empty, and the allow-list as this process has it.               *)
Meant(name) ==
    IF name = Fold[TokenKey] THEN savedToken
    ELSE IF name = Fold[HostKey] THEN WithScheme(defaultHost)
    ELSE IF \E k \in Elements(Optional) : Fold[k] = name /\ parent[name] = <<>>
         THEN Unset
    ELSE parent[name]

(* The server finds exactly this, whatever the values contain, with no item *)
(* twice; on Windows a key of the allow-list in two spellings is one name,  *)
(* and nothing outside both lists is there.                                *)
ChildExact ==
    pc = "running" =>
        /\ \A name \in Names : Found(name) = {Meant(name)} \ {Unset}
        /\ \A i \in 1 .. Len(child) :
             /\ child[i][1] \in Keys
             /\ \A j \in 1 .. i - 1 : child[j][1] # child[i][1]

(* A line break or a NUL byte in the credentials or an option never reaches *)
(* a server: it is not started at all.                                     *)
UnsafeRefused ==
    pc = "running" =>
        \A value \in {savedToken, defaultHost}
                        \cup {parent[Fold[k]] : k \in Elements(Optional)} :
            value # Unset => ~Has(value, "NUL") /\ ~Has(value, "\n")

(* "Ensure host has https:// prefix" (auth.go:60; http:// stays, says the   *)
(* test): the server gets a URL.                                           *)
HostIsURL ==
    pc = "running" =>
        \E scheme \in {"https", "http"} :
            SubSeq(auth.host, 1, 3) = <<scheme, ":", "//">>
=============================================================================
