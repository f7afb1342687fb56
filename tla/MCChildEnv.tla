------------------------------ MODULE MCChildEnv ------------------------------
(* ChildEnv with two options, a path and a proxy in both spellings; the     *)
(* parent has one variable of neither list.                                *)
EXTENDS ChildEnv

SomeWords   == {"https", "http", "ghe", "t", "SECRET"}
SomeNumbers == {"8443"}
Options     == <<"GITHUB_TOOLSETS", "GITHUB_READ_ONLY">>
AllowList   == <<"PATH", "HTTP_PROXY", "http_proxy">>

AllKeys == {"GITHUB_PERSONAL_ACCESS_TOKEN", "GITHUB_HOST", "SECRET"}
             \cup {Options[i] : i \in 1 .. 2} \cup {AllowList[i] : i \in 1 .. 3}

Exact == [k \in AllKeys |-> k]
Caseless ==
    [k \in AllKeys |-> CASE k \in {"HTTP_PROXY", "http_proxy"} -> "Http_Proxy"
                         [] k = "PATH" -> "Path"
                         [] OTHER -> k]

BareHosts == {<<>>, <<"ghe">>, <<"8443", ":", "8443">>, <<"ghe", "\n">>,
              <<"https", ":", "//", "ghe">>, <<"https", ":", "//", "ghe", ":", "t">>}
PortHosts == {<<"ghe">>, <<"ghe", ":", "8443">>}
SomeTokens == {<<>>, <<"t">>, <<"t", "=", "t">>, <<"t", "NUL">>}
OneToken   == {<<"t">>}

OptionValues  == {<<>>, <<"t">>, <<"t", "\n">>, Unset}
AllowedValues == {<<>>, <<"t", "=", "t">>, Unset}

(* Environments whose variables have the names of the set N.               *)
Environments(N) ==
    {p \in [N -> OptionValues \cup AllowedValues] :
        \A n \in N : IF n \in {Options[1], Options[2]} THEN p[n] \in OptionValues
                     ELSE IF n \in {"SECRET", TokenKey, HostKey} THEN p[n] = <<"t">>
                     ELSE p[n] \in AllowedValues}

UnixParents    == Environments(AllKeys)
WindowsParents == Environments({Caseless[k] : k \in AllKeys})
=============================================================================
