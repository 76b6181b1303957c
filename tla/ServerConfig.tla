---------------------------- MODULE ServerConfig ----------------------------
(***************************************************************************)
(* ServerConfig and loadServerConfig: how the INI file becomes the         *)
(* settings of the server, with expandEnvVars on paths and tokens.         *)
(*                                                                         *)
(* A text is a sequence of characters; letters that are never looked at    *)
(* one by one may stand together as one.  The file is a function from the  *)
(* keys it contains to raw values; its three open sections are functions   *)
(* from their own keys, which are the numbers the examples use.  A         *)
(* number is [num, val], with num FALSE for a value that is not one.       *)
(***************************************************************************)
EXTENDS Integers, Sequences, FiniteSets, SequencesExt

CONSTANTS
    Chars,      \* the characters of texts
    NameChars   \* those of variable names: letters, digits, underscore

Text == Seq(Chars)

\* The characters with a meaning of their own.
Sigil     == "$"
LBrace    == "{"
RBrace    == "}"
Backslash == "\\"
Comma     == ","
Quote     == "\""

ASSUME NameAssumption ==
    /\ {Sigil, LBrace, RBrace, Backslash, Comma, Quote} \cup NameChars \subseteq Chars
    /\ NameChars \cap {Sigil, LBrace, RBrace} = {}

-----------------------------------------------------------------------------
(* Text.                                                                   *)

\* The position behind the longest run of name characters from i on.
NameEnd(s, i) ==
    CHOOSE j \in i .. Len(s) + 1 :
        /\ \A k \in i .. j - 1 : s[k] \in NameChars
        /\ j = Len(s) + 1 \/ s[j] \notin NameChars

\* A scan of s from left to right: text[i] is what it emits at position i, from
\* where it goes on at next[i].
Scan(s, text, next) ==
    LET result[i \in 1 .. Len(s) + 2] ==
          IF i > Len(s) THEN <<>> ELSE text[i] \o result[next[i]]
    IN  result[1]

\* What stands at the "$" at position i.  A "${NAME" is closed by "}".
Dollar(s, i) ==
    LET braced == i < Len(s) /\ s[i + 1] = LBrace
        start  == IF braced THEN i + 2 ELSE i + 1
        end    == NameEnd(s, start)
        closed == braced /\ end <= Len(s) /\ s[end] = RBrace
    IN  [name |-> SubSeq(s, start, end - 1), malformed |-> braced /\ ~closed,
         next |-> IF closed THEN end + 1 ELSE end]

NextPos(s) == [i \in DOMAIN s |-> IF s[i] # Sigil THEN i + 1 ELSE Dollar(s, i).next]

\* Mutant of expandEnvVars: a brace that is not closed ends the name as well.
ExpandUnclosed(env, s) ==
    LET text(i) ==
          LET d == Dollar(s, i) IN
          IF s[i] # Sigil THEN <<s[i]>>
          ELSE IF d.name = <<>> THEN <<Sigil>>
          ELSE IF d.name \in DOMAIN env THEN env[d.name]
          ELSE SubSeq(s, i, d.next - 1)
    IN  Scan(s, [i \in DOMAIN s |-> text(i)], NextPos(s))

\* Malformed "${NAME" is emitted as it stands, an empty name as "$", an unknown
\* variable as it was written.
expandEnvVars(env, s) ==
    LET text(i) ==
          LET d == Dollar(s, i) IN
          IF s[i] # Sigil THEN <<s[i]>>
          ELSE IF d.malformed THEN <<Sigil, LBrace>> \o d.name
          ELSE IF d.name = <<>> THEN <<Sigil>>
          ELSE IF d.name \in DOMAIN env THEN env[d.name]
          ELSE SubSeq(s, i, d.next - 1)
    IN  Scan(s, [i \in DOMAIN s |-> text(i)], NextPos(s))

\* Three of the escapes that QSettings undoes when it reads a value; it drops the
\* backslash and the character behind it if it does not know the escape.
Escaped == [c \in {Backslash, Quote, "b"} |-> IF c = "b" THEN "BACKSPACE" ELSE c]

ASSUME EscapedAssumption == \A c \in DOMAIN Escaped : Escaped[c] \in Chars

\* The backslashes in front of position i are odd in number.
IsEscaped(s, i) ==
    \E j \in 1 .. i - 1 : /\ (i - j) % 2 = 1 /\ \A k \in j .. i - 1 : s[k] = Backslash
                          /\ j = 1 \/ s[j - 1] # Backslash

\* A comma that is neither escaped nor between quotes makes the value a list.
IsList(s) ==
    LET plain(c, last) == {i \in 1 .. last : s[i] = c /\ ~IsEscaped(s, i)}
    IN  \E i \in plain(Comma, Len(s)) : Cardinality(plain(Quote, i - 1)) % 2 = 0

\* The value without its quotes and escapes.
Unescaped(s) ==
    LET known(i) == i < Len(s) /\ s[i + 1] \in DOMAIN Escaped
        text(i)  == IF s[i] = Quote THEN <<>>
                    ELSE IF s[i] # Backslash THEN <<s[i]>>
                    ELSE IF known(i) THEN <<Escaped[s[i + 1]]>> ELSE <<>>
    IN  Scan(s, [i \in DOMAIN s |-> text(i)], [i \in DOMAIN s |-> IF s[i] # Backslash THEN i + 1 ELSE i + 2])

\* value(k).toString(): a list has no text.
toString(s) == IF IsList(s) THEN <<>> ELSE Unescaped(s)

\* toInt() and toBool() of a QVariant that holds text.
toInt(r)  == IF r.num THEN r.val ELSE 0
toBool(s) == s \notin {<<>>, <<"0">>, <<"false">>}

-----------------------------------------------------------------------------
(* The settings.                                                           *)

\* The ports that exist; 0 lets the system choose one.
Ports == 0 .. 65535

\* struct ServerConfig with its initializers.
Defaults ==
    [port |-> 50051, cmdTimeoutMs |-> 30000, tls |-> FALSE,
     cert |-> <<>>, key |-> <<>>, ca |-> <<>>, allow |-> <<>>, deny |-> <<>>,
     auth |-> <<>>, logFile |-> <<>>, logLevel |-> "", debugLevel |-> -1]

Digits(n) == IF n < 10 THEN <<n>> ELSE <<n \div 10, n % 10>>

\* Keys are sorted as texts, so 10 comes before 2.
KeyLess(a, b) ==
    LET x == Digits(a) y == Digits(b)
    IN  x[1] < y[1] \/ (x[1] = y[1] /\ (Len(x) < Len(y) \/ (Len(x) = 2 /\ Len(y) = 2 /\ x[2] < y[2])))

\* The values of these keys, in the order of the keys.
InOrderOfKeys(keys, section) ==
    LET at(i) == CHOOSE k \in keys : Cardinality({j \in keys : KeyLess(j, k)}) = i - 1
    IN  [i \in 1 .. Cardinality(keys) |-> toString(section[at(i)])]

\* Mutant of LoadList: the first empty value ends the list.
LoadListUpToEmpty(section) ==
    InOrderOfKeys({k \in DOMAIN section :
                      \A j \in DOMAIN section : j = k \/ KeyLess(j, k) => toString(section[j]) # <<>>}, section)

\* A pattern list: the non-empty values, in the order of their keys.
LoadList(section) ==
    InOrderOfKeys({k \in DOMAIN section : toString(section[k]) # <<>>}, section)

\* The [auth] section: identity -> expanded token; empty tokens are dropped.
LoadTokens(section, env) ==
    LET token(id) == expandEnvVars(env, toString(section[id]))
    IN  [id \in {i \in DOMAIN section : token(i) # <<>>} |-> token(id)]

\* What the keys of the file make of the defaults.
Settings(ini, env) ==
    LET raw(k, Read(_), default) == IF k \in DOMAIN ini THEN Read(ini[k]) ELSE default
        path(v)   == expandEnvVars(env, toString(v))
        tokens(v) == LoadTokens(v, env)
        same(v)   == v
    IN  [port         |-> raw("port", toInt, Defaults.port),
         cmdTimeoutMs |-> raw("cmd_timeout_ms", toInt, Defaults.cmdTimeoutMs),
         tls          |-> raw("enabled", toBool, Defaults.tls),
         cert         |-> raw("cert", path, Defaults.cert),
         key          |-> raw("key", path, Defaults.key),
         ca           |-> raw("ca", path, Defaults.ca),
         allow        |-> raw("allowlist", LoadList, Defaults.allow),
         deny         |-> raw("denylist", LoadList, Defaults.deny),
         auth         |-> raw("auth", tokens, Defaults.auth),
         logFile      |-> raw("file", toString, Defaults.logFile),
         logLevel     |-> raw("level", same, Defaults.logLevel),
         debugLevel   |-> raw("debug_level", toInt, Defaults.debugLevel)]

\* Mutant of loadServerConfig: port 0, which is what a value that is not a number
\* gives, is let through.
LoadPortZero(ini, env) ==
    LET cfg == Settings(ini, env)
    IN  IF cfg.port \notin Ports THEN [err |-> "port", cfg |-> Defaults]
        ELSE IF cfg.cmdTimeoutMs <= 0 THEN [err |-> "cmd_timeout_ms", cfg |-> Defaults]
        ELSE [err |-> "none", cfg |-> cfg]

\* The whole of loadServerConfig for a file that exists.  After an error the
\* caller exits, so what was already assigned does not matter.
loadServerConfig(ini, env) ==
    LET cfg == Settings(ini, env)
    IN  IF cfg.port \notin Ports \ {0} THEN [err |-> "port", cfg |-> Defaults]
        ELSE IF cfg.cmdTimeoutMs <= 0 THEN [err |-> "cmd_timeout_ms", cfg |-> Defaults]
        ELSE [err |-> "none", cfg |-> cfg]

-----------------------------------------------------------------------------
(* What expandEnvVars is meant to do, stated on positions.  Used by the    *)
(* properties only.                                                        *)

IsName(s) == s # <<>> /\ \A i \in DOMAIN s : s[i] \in NameChars

\* The references in s: the interval a $NAME or ${NAME} covers, with its NAME.
References(s) ==
    LET intervals == {p \in (DOMAIN s) \X (DOMAIN s) : s[p[1]] = Sigil}
        plain     == {p \in intervals : /\ IsName(SubSeq(s, p[1] + 1, p[2]))
                                        /\ p[2] = Len(s) \/ s[p[2] + 1] \notin NameChars}
        braced    == {p \in intervals : /\ p[1] + 2 < p[2] /\ s[p[1] + 1] = LBrace /\ s[p[2]] = RBrace
                                        /\ IsName(SubSeq(s, p[1] + 2, p[2] - 1))}
    IN  {[from |-> p[1], to |-> p[2], name |-> SubSeq(s, p[1] + 1, p[2])] : p \in plain}
        \cup {[from |-> p[1], to |-> p[2], name |-> SubSeq(s, p[1] + 2, p[2] - 1)] : p \in braced}

\* Where "${}" begins.
Hollow(s, i) == i \in 1 .. Len(s) - 2 /\ s[i] = Sigil /\ s[i + 1] = LBrace /\ s[i + 2] = RBrace

\* Every reference to a known variable is replaced by its value and every other
\* character stays.
Referenced(env, s) ==
    LET known == {r \in References(s) : r.name \in DOMAIN env}
        image(i) ==
            IF \E r \in known : r.from = i THEN env[(CHOOSE r \in known : r.from = i).name]
            ELSE IF \E r \in known : i \in r.from .. r.to THEN <<>> ELSE <<s[i]>>
    IN  FlattenSeq([i \in DOMAIN s |-> image(i)])

\* The same, but the braces of "${}" are lost, as they are in the code.
Expanded(env, s) ==
    LET known == {r \in References(s) : r.name \in DOMAIN env}
        image(i) ==
            IF \E r \in known : r.from = i THEN env[(CHOOSE r \in known : r.from = i).name]
            ELSE IF (\E r \in known : i \in r.from .. r.to) \/ Hollow(s, i - 1) \/ Hollow(s, i - 2)
            THEN <<>> ELSE <<s[i]>>
    IN  FlattenSeq([i \in DOMAIN s |-> image(i)])
=============================================================================
