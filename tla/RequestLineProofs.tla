-------------------------- MODULE RequestLineProofs --------------------------
(****************************************************************************)
(* The constructor of Config and parse_url, for configurations, names and   *)
(* lines of any length.                                                     *)
(****************************************************************************)
EXTENDS RequestLine, TextProofs

-----------------------------------------------------------------------------
(* Words of a list.                                                         *)

WordAt(list, i, j) == i <= Len(list) /\ Stretch(list, "SP", 1, End(list), i, j)

LEMMA WordsAre ==
  ASSUME NEW list \in Seq(STRING), list # <<>>, NEW word
  PROVE  word \in Words(list) <=>
           \E i, j \in Nat : WordAt(list, i, j) /\ word = Part(list, i, j)
  <1>1. Len(list) \in Nat /\ End(list) = Len(list) + 1
    BY LenProperties DEF End
  <1>2. ASSUME word \in Words(list)
        PROVE  \E i, j \in Nat : WordAt(list, i, j) /\ word = Part(list, i, j)
    <2>1. PICK w \in [begin : 1..Len(list), end : 1..End(list)] :
             /\ word = Part(list, w.begin, w.end)
             /\ w.begin <= w.end
             /\ w.begin = 1 \/ list[w.begin - 1] = "SP"
             /\ w.end = End(list) \/ list[w.end] = "SP"
             /\ \A k \in w.begin..(w.end - 1) : list[k] # "SP"
      BY <1>2 DEF Words
    <2>2. WordAt(list, w.begin, w.end) /\ w.begin \in Nat /\ w.end \in Nat
      BY <1>1, <2>1 DEF WordAt, Stretch
    <2> QED
      BY <2>1, <2>2
  <1>3. ASSUME NEW i \in Nat, NEW j \in Nat, WordAt(list, i, j)
        PROVE  Part(list, i, j) \in Words(list)
    <2> DEFINE w == [begin |-> i, end |-> j]
    <2>1. w \in [begin : 1..Len(list), end : 1..End(list)] /\ w.begin = i /\ w.end = j
      BY <1>1, <1>3 DEF WordAt, Stretch
    <2> HIDE DEF w
    <2>2. /\ w.begin <= w.end
          /\ w.begin = 1 \/ list[w.begin - 1] = "SP"
          /\ w.end = End(list) \/ list[w.end] = "SP"
          /\ \A k \in w.begin..(w.end - 1) : list[k] # "SP"
      BY <1>1, <1>3, <2>1 DEF WordAt, Stretch
    <2>3. Part(list, w.begin, w.end) \in Words(list)
      BY <2>1, <2>2 DEF Words
    <2> QED
      BY <2>1, <2>3
  <1> QED
    BY <1>2, <1>3

(* What load_files has done when it stands at b of its list.                *)
LoadedTo(list, files, b) ==
  /\ b = 1 \/ (b \in 2..Len(list) /\ list[b - 1] = "SP")
  /\ list = <<>> => files = {}
  /\ \A word : word \in files <=>
       \E i, j \in Nat : WordAt(list, i, j) /\ j < b /\ word = Part(list, i, j)

(* A turn adds the word that begins at b, and the last turn completes the   *)
(* list's words.                                                            *)
LEMMA LoadTurn ==
  ASSUME NEW list \in Seq(STRING), NEW files, NEW b, LoadedTo(list, files, b),
         NEW sep, sep = Find(list, b, End(list), "SP")
  PROVE  /\ Part(list, b, sep) \in Seq(STRING) /\ sep + 1 \in Nat \ {0}
         /\ IF sep + 1 < End(list)
            THEN LoadedTo(list, files \cup {Part(list, b, sep)}, sep + 1)
            ELSE files \cup {Part(list, b, sep)} = Words(list)
  <1>1. /\ Len(list) \in Nat /\ End(list) = Len(list) + 1 /\ b \in 1..End(list)
        /\ b = 1 \/ (b <= Len(list) /\ list[b - 1] = "SP")
    BY LenProperties DEF End, LoadedTo
  <1>2. /\ sep \in Nat /\ b <= sep /\ sep <= End(list)
        /\ sep = End(list) \/ list[sep] = "SP"
        /\ \A k \in b..(sep - 1) : list[k] # "SP"
    BY <1>1, FindFacts
  <1>3. Part(list, b, sep) \in Seq(STRING)
    BY <1>1, <1>2, PartFacts
  <1>4. CASE list = <<>>
    <2>1. b = 1 /\ End(list) = 1 /\ sep = 1 /\ files = {}
      BY <1>1, <1>2, <1>4 DEF LoadedTo
    <2>2. Part(list, 1, 1) = <<>>
      BY <1>4 DEF Part
    <2> QED
      BY <1>3, <1>4, <2>1, <2>2 DEF Words
  <1>5. CASE list # <<>>
    <2>1. Len(list) > 0
      BY <1>1, <1>5, EmptySeq
    <2>2. WordAt(list, b, sep)
      BY <1>1, <1>2, <2>1 DEF WordAt, Stretch
    <2>3. ASSUME NEW i, NEW j, WordAt(list, i, j)
          PROVE  /\ i < b => j < b
                 /\ i = b => j = sep
                 /\ i > b => i > sep
                 /\ i \in 1..Len(list) /\ j \in i..End(list)
      BY <1>1, <2>2, <2>3, StretchOrder DEF WordAt, Stretch
    <2>4. ASSUME sep + 1 < End(list)
          PROVE  LoadedTo(list, files \cup {Part(list, b, sep)}, sep + 1)
      <3>1. sep + 1 \in 2..Len(list) /\ list[sep] = "SP" /\ sep + 1 - 1 = sep
        BY <1>1, <1>2, <2>4
      <3>2. ASSUME NEW i \in Nat, NEW j \in Nat, WordAt(list, i, j)
            PROVE  j < sep + 1 <=> j < b \/ (i = b /\ j = sep)
        <4>1. /\ i < b => j < b
              /\ i = b => j = sep
              /\ i > b => i > sep
              /\ b \in Nat /\ sep \in Nat /\ b <= sep /\ i <= j
          BY <1>1, <1>2, <2>3, <3>2
        <4> QED
          BY <4>1
      <3> DEFINE more == files \cup {Part(list, b, sep)}
                 next == sep + 1
      <3>3. ASSUME NEW word
            PROVE  word \in more <=>
                     \E i, j \in Nat : WordAt(list, i, j) /\ j < next /\ word = Part(list, i, j)
        <4>1. word \in files <=>
                \E i, j \in Nat : WordAt(list, i, j) /\ j < b /\ word = Part(list, i, j)
          BY DEF LoadedTo
        <4>2. b \in Nat /\ sep \in Nat
          BY <1>1, <1>2
        <4> QED
          BY <2>2, <3>2, <4>1, <4>2
      <3>4. next \in 2..Len(list) /\ list[next - 1] = "SP"
        <4>1. next - 1 = sep
          BY <1>2
        <4> QED
          BY <3>1, <4>1
      <3> HIDE DEF more, next
      <3>5. LoadedTo(list, more, next)
        BY <1>5, <3>3, <3>4 DEF LoadedTo
      <3> QED
        BY <3>5 DEF more, next
    <2>5. ASSUME ~ (sep + 1 < End(list))
          PROVE  files \cup {Part(list, b, sep)} = Words(list)
      <3>1. ASSUME NEW i \in Nat, NEW j \in Nat, WordAt(list, i, j)
            PROVE  j < b \/ (i = b /\ j = sep)
        <4>1. /\ i < b => j < b
              /\ i = b => j = sep
              /\ i > b => i > sep
              /\ b \in Nat /\ sep \in Nat /\ b <= sep /\ i <= Len(list)
          BY <1>1, <1>2, <2>3, <3>1
        <4>2. Len(list) <= sep
          BY <1>1, <1>2, <2>5
        <4> QED
          BY <1>1, <4>1, <4>2
      <3>2. ASSUME NEW word
            PROVE  word \in files \cup {Part(list, b, sep)} <=>
                     \E i, j \in Nat : WordAt(list, i, j) /\ word = Part(list, i, j)
        <4>1. word \in files <=>
                \E i, j \in Nat : WordAt(list, i, j) /\ j < b /\ word = Part(list, i, j)
          BY DEF LoadedTo
        <4>2. b \in Nat /\ sep \in Nat
          BY <1>1, <1>2
        <4> QED
          BY <2>2, <3>1, <4>1, <4>2
      <3>3. \A word : word \in files \cup {Part(list, b, sep)} <=> word \in Words(list)
        BY <1>5, <3>2, WordsAre
      <3> QED
        BY <3>3
    <2> QED
      BY <1>2, <1>3, <2>4, <2>5
  <1> QED
    BY <1>4, <1>5

LEMMA LoadedNone ==
  ASSUME NEW list \in Seq(STRING)
  PROVE  LoadedTo(list, {}, 1)
  <1>1. ASSUME NEW i, NEW j, WordAt(list, i, j) PROVE ~ (j < 1)
    BY <1>1 DEF WordAt, Stretch
  <1> QED
    BY <1>1 DEF LoadedTo

-----------------------------------------------------------------------------
(* The constructor.                                                         *)

ConfigInv ==
  /\ ConfigTypeOK
  /\ phase = "static" => LoadedTo(ini.static, static_files, begin) /\ cgi_files = {}
  /\ phase = "cgi" => LoadedTo(ini.cgi, cgi_files, begin)
  /\ phase \in {"cgi", "types", "ready"} => static_files = Words(ini.static)
  /\ phase \in {"types", "ready"} => cgi_files = Words(ini.cgi)
  /\ phase \in {"static", "cgi"} => return_types = {}
  /\ phase = "types" => \A type \in return_types : Findable(type)
  /\ LoadedExactly

LEMMA IniTexts ==
  ASSUME ConfigTypeOK
  PROVE  ini.static \in Seq(STRING) /\ ini.cgi \in Seq(STRING)
  BY ConfigAssumption DEF ConfigTypeOK

LEMMA ConfigStarts == ConfigInit => ConfigInv
  <1> SUFFICES ASSUME ConfigInit PROVE ConfigInv
    OBVIOUS
  <1>1. ConfigTypeOK
    BY DEF ConfigInit, ConfigTypeOK
  <1>2. LoadedTo(ini.static, {}, 1)
    BY <1>1, IniTexts, LoadedNone
  <1> QED
    BY <1>1, <1>2 DEF ConfigInit, ConfigInv, LoadedExactly

LEMMA ThrowKeeps == ConfigInv /\ Throw => ConfigInv'
  <1> SUFFICES ASSUME ConfigInv, Throw PROVE ConfigInv'
    OBVIOUS
  <1>1. /\ phase' = "thrown" /\ ini' = ini /\ begin' = begin
        /\ static_files' = static_files /\ cgi_files' = cgi_files
        /\ return_types' = return_types
        /\ ini.static = Missing \/ ini.cgi = Missing
    BY DEF Throw
  <1>2. ConfigTypeOK'
    BY <1>1 DEF ConfigInv, ConfigTypeOK
  <1>3. LoadedExactly'
    BY <1>1 DEF LoadedExactly
  <1> QED
    BY <1>1, <1>2, <1>3 DEF ConfigInv

LEMMA LoadStaticKeeps == ConfigInv /\ LoadStatic => ConfigInv'
  <1> SUFFICES ASSUME ConfigInv, LoadStatic PROVE ConfigInv'
    OBVIOUS
  <1> DEFINE sep == Find(ini.static, begin, End(ini.static), "SP")
             word == Part(ini.static, begin, sep)
  <1>1. /\ phase = "static" /\ ini' = ini /\ cgi_files' = cgi_files
        /\ return_types' = return_types /\ static_files' = static_files \cup {word}
        /\ IF sep + 1 < End(ini.static) THEN begin' = sep + 1 /\ phase' = "static"
           ELSE begin' = 1 /\ phase' = "cgi"
    BY DEF LoadStatic, LoadWord, After
  <1>2. /\ ini.static \in Seq(STRING) /\ ini.cgi \in Seq(STRING)
        /\ LoadedTo(ini.static, static_files, begin)
        /\ cgi_files = {} /\ return_types = {} /\ ConfigTypeOK
    BY <1>1, IniTexts DEF ConfigInv
  <1>3. /\ word \in Seq(STRING) /\ sep + 1 \in Nat \ {0}
        /\ IF sep + 1 < End(ini.static)
           THEN LoadedTo(ini.static, static_files \cup {word}, sep + 1)
           ELSE static_files \cup {word} = Words(ini.static)
    BY <1>2, LoadTurn
  <1>4. LoadedTo(ini.cgi, {}, 1)
    BY <1>2, LoadedNone
  <1> HIDE DEF sep, word
  <1>5. ConfigTypeOK'
    BY <1>1, <1>2, <1>3 DEF ConfigTypeOK
  <1>6. LoadedExactly'
    BY <1>1 DEF LoadedExactly
  <1> QED
    BY <1>1, <1>2, <1>3, <1>4, <1>5, <1>6 DEF ConfigInv

LEMMA LoadCgiKeeps == ConfigInv /\ LoadCgi => ConfigInv'
  <1> SUFFICES ASSUME ConfigInv, LoadCgi PROVE ConfigInv'
    OBVIOUS
  <1> DEFINE sep == Find(ini.cgi, begin, End(ini.cgi), "SP")
             word == Part(ini.cgi, begin, sep)
  <1>1. /\ phase = "cgi" /\ ini' = ini /\ static_files' = static_files
        /\ return_types' = return_types /\ cgi_files' = cgi_files \cup {word}
        /\ IF sep + 1 < End(ini.cgi) THEN begin' = sep + 1 /\ phase' = "cgi"
           ELSE begin' = 1 /\ phase' = "types"
    BY DEF LoadCgi, LoadWord, After
  <1>2. /\ ini.cgi \in Seq(STRING) /\ LoadedTo(ini.cgi, cgi_files, begin)
        /\ static_files = Words(ini.static) /\ return_types = {} /\ ConfigTypeOK
    BY <1>1, IniTexts DEF ConfigInv
  <1>3. /\ word \in Seq(STRING) /\ sep + 1 \in Nat \ {0}
        /\ IF sep + 1 < End(ini.cgi)
           THEN LoadedTo(ini.cgi, cgi_files \cup {word}, sep + 1)
           ELSE cgi_files \cup {word} = Words(ini.cgi)
    BY <1>2, LoadTurn
  <1> HIDE DEF sep, word
  <1>4. ConfigTypeOK'
    BY <1>1, <1>2, <1>3 DEF ConfigTypeOK
  <1>5. LoadedExactly'
    BY <1>1 DEF LoadedExactly
  <1> QED
    BY <1>1, <1>2, <1>3, <1>4, <1>5 DEF ConfigInv

(* What tree.get finds is what can be found.                                *)
LEMMA KeyFindable ==
  ASSUME ConfigTypeOK, NEW type \in Seq(STRING)
  PROVE  HasKey(type) <=> Findable(type)
  <1> DEFINE S == STRING
             n == Len(type)
             dot == "."
             front == SubSeq(type, 1, n - 1)
             Undotted(key) == \A i \in DOMAIN key : key[i] # dot
  <1>1. ini.keys \subseteq Seq(S) \ {<<>>} /\ type \in Seq(S) /\ n \in Nat
    BY ConfigAssumption DEF ConfigTypeOK
  <1>2. CASE type = <<>>
    BY <1>2 DEF HasKey, Findable
  <1>3. CASE type # <<>> /\ type[n] # dot
    <2>1. HasKey(type) <=> type \in ini.keys /\ Undotted(type)
      BY <1>3 DEF HasKey
    <2>2. ASSUME NEW key \in ini.keys PROVE type # key \o <<dot>>
      <3> HIDE DEF dot, S
      <3> DEFINE whole == key \o <<dot>>
      <3>1. key \in Seq(S) /\ Len(key) \in Nat
        BY <1>1
      <3>2. Len(whole) = Len(key) + 1 /\ whole[Len(key) + 1] = dot
        BY <3>1
      <3> QED
        BY <1>3, <3>2
    <2>3. Findable(type) <=> type \in ini.keys /\ Undotted(type)
      BY <1>3, <2>2 DEF Findable
    <2> QED
      BY <2>1, <2>3
  <1>4. CASE type # <<>> /\ type[n] = dot
    <2>1. HasKey(type) <=> front \in ini.keys /\ Undotted(front)
      <3>1. Part(type, 1, Len(type)) = front
        BY DEF Part
      <3> HIDE DEF front
      <3> QED
        BY <1>4, <3>1 DEF HasKey
    <2>2. n > 0
      BY <1>1, <1>4, EmptySeq
    <2>3. n \in DOMAIN type
      BY <1>1, <2>2
    <2>4. front \in Seq(S) /\ type = front \o <<dot>>
      <3> HIDE DEF dot, S
      <3>1. front \in Seq(S) /\ Len(front) = n - 1
        <4>1. \A i \in 1..(n - 1) : type[i] \in S
          BY <1>1
        <4> QED
          <5>1. n - 1 \in Int /\ 1 \in Int
            BY <1>1
          <5>2. /\ front \in Seq(S)
                /\ Len(front) = IF 1 <= n - 1 THEN (n - 1) - 1 + 1 ELSE 0
            <6> HIDE DEF n
            <6> QED
              BY <4>1, <5>1, SubSeqProperties
          <5> HIDE DEF n, front
          <5> QED
            BY <1>1, <2>2, <5>2
      <3>2. dot \in S
        BY <1>1, <1>4, <2>3
      <3> DEFINE whole == front \o <<dot>>
      <3>3. whole \in Seq(S) /\ Len(whole) = n
        BY <1>1, <3>1, <3>2
      <3>4. \A i \in 1..n : whole[i] = type[i]
        BY <1>1, <1>4, <2>2, <3>1, <3>2
      <3> HIDE DEF whole, front
      <3>5. whole = type
        BY <1>1, <3>3, <3>4, SeqEqual
      <3> QED
        BY <3>1, <3>5 DEF whole
    <2>5. ASSUME NEW key \in ini.keys, type = key \o <<dot>> PROVE key = front
      <3> HIDE DEF dot, S
      <3>1. key \in Seq(S) /\ Len(key) \in Nat
        BY <1>1
      <3>2. n = Len(key) + 1 /\ \A i \in 1..Len(key) : type[i] = key[i]
        BY <2>5, <3>1
      <3>3. front \in Seq(S) /\ Len(front) = Len(key) /\ \A i \in 1..Len(key) : front[i] = type[i]
        BY <1>1, <3>1, <3>2
      <3> HIDE DEF front
      <3> QED
        BY <3>1, <3>2, <3>3, SeqEqual
    <2> HIDE DEF front
    <2>6. Findable(type) <=> front \in ini.keys /\ Undotted(front)
      <3>1. ~Undotted(type)
        BY <1>4, <2>3
      <3> QED
        BY <1>4, <2>4, <2>5, <3>1 DEF Findable
    <2> QED
      BY <2>1, <2>6
  <1> QED
    BY <1>2, <1>3, <1>4

LEMMA ReturnTypeKeeps == ConfigInv /\ ReturnType => ConfigInv'
  <1> SUFFICES ASSUME ConfigInv, ReturnType PROVE ConfigInv'
    OBVIOUS
  <1>1. /\ phase = "types" /\ ini' = ini /\ begin' = begin
        /\ static_files' = static_files /\ cgi_files' = cgi_files
        /\ static_files = Words(ini.static) /\ cgi_files = Words(ini.cgi)
        /\ ConfigTypeOK
    BY DEF ReturnType, ConfigInv
  <1>2. \/ /\ phase' = "ready" /\ return_types' = return_types
           /\ static_files \subseteq return_types
        \/ \E type \in static_files \ return_types :
             \/ /\ phase' = "types" /\ return_types' = return_types \cup {type}
                /\ HasKey(type)
             \/ /\ phase' = "thrown" /\ return_types' = return_types
                /\ ~HasKey(type)
    BY <1>1 DEF ReturnType
  <1>6. \A type \in static_files : HasKey(type) <=> Findable(type)
    BY <1>1, KeyFindable DEF ConfigTypeOK
  <1>7. \A type \in return_types : Findable(type)
    BY <1>1 DEF ConfigInv
  <1>8. \A type : Findable(type)' <=> Findable(type)
    BY <1>1 DEF Findable
  <1>3. ConfigTypeOK'
    BY <1>1, <1>2 DEF ConfigTypeOK
  <1>4. return_types \subseteq static_files
    BY <1>1 DEF ConfigTypeOK
  <1>5. LoadedExactly'
    <2>1. CASE phase' = "ready"
      <3>1. static_files = return_types /\ return_types' = static_files
        BY <1>2, <1>4, <2>1
      <3> HIDE DEF Findable
      <3> QED
        BY <1>1, <1>7, <1>8, <2>1, <3>1 DEF LoadedExactly
    <2>2. CASE phase' = "thrown"
      <3>1. PICK type \in static_files : ~HasKey(type)
        BY <1>2, <2>2
      <3>2. ~Findable(type) /\ type \in Words(ini.static)
        BY <1>1, <1>6, <3>1
      <3> QED
        BY <1>1, <1>8, <2>2, <3>2 DEF LoadedExactly
    <2>3. CASE phase' = "types"
      BY <2>3 DEF LoadedExactly
    <2> QED
      BY <1>2, <2>1, <2>2, <2>3
  <1>9. phase' = "types" => \A type \in return_types' : Findable(type)'
    BY <1>2, <1>6, <1>7, <1>8
  <1> QED
    BY <1>1, <1>2, <1>3, <1>5, <1>9 DEF ConfigInv

LEMMA ConfigureKeeps == ConfigInv /\ Configure => ConfigInv'
  BY ThrowKeeps, LoadStaticKeeps, LoadCgiKeeps, ReturnTypeKeeps DEF Configure

LEMMA ConfigStays == ConfigInv /\ UNCHANGED configVars => ConfigInv'
  <1> SUFFICES ASSUME ConfigInv, UNCHANGED configVars PROVE ConfigInv'
    OBVIOUS
  <1>1. \A type : Findable(type)' <=> Findable(type)
    BY DEF Findable, configVars
  <1> QED
    BY <1>1 DEF ConfigInv, ConfigTypeOK, LoadedExactly, configVars

LEMMA ConfigAlways == Spec => []ConfigInv
  <1>1. Init => ConfigInv
    BY ConfigStarts DEF Init
  <1>2. ConfigInv /\ [Next]_vars => ConfigInv'
    BY ConfigureKeeps, ConfigStays DEF Next, vars
  <1> QED
    BY <1>1, <1>2, PTL DEF Spec

(* A server that starts knows exactly the words of its lists, of any        *)
(* length, and has a content type for each static one; one that does not    *)
(* start lacks a list, or the content type of a word, which a word with a   *)
(* dot in it always does (config.cpp:12-26).                                *)
THEOREM ListsLoaded == Spec => []LoadedExactly
  <1>1. ConfigInv => LoadedExactly
    BY DEF ConfigInv
  <1> QED
    BY <1>1, ConfigAlways, PTL

-----------------------------------------------------------------------------
(* Types.                                                                   *)

(* What comes after the last dot, if there is one.                          *)
LEMMA ExtensionFacts ==
  ASSUME NEW S, NEW name \in Seq(S)
  PROVE  LET dot == FindAfterLast(name, ".")
         IN  /\ dot \in 1..(Len(name) + 1) /\ Len(name) \in Nat
             /\ dot = 1 \/ name[dot - 1] = "."
             /\ \A i \in dot..Len(name) : name[i] # "."
             /\ Extension(name) = SubSeq(name, dot, Len(name))
  <1> DEFINE dot == FindAfterLast(name, ".")
             n == End(name)
  <1>1. Len(name) \in Nat /\ n = Len(name) + 1 /\ n - 1 = Len(name)
    BY LenProperties DEF End
  <1>2. /\ dot \in 1..n
        /\ dot = 1 \/ name[dot - 1] = "."
        /\ \A i \in dot..Len(name) : name[i] # "."
    BY <1>1, FindAfterLastFacts
  <1>3. Extension(name) = SubSeq(name, dot, n - 1)
    BY DEF Extension, Part
  <1> QED
    BY <1>1, <1>2, <1>3

(* An ending is what comes after a dot and has none.                        *)
LEMMA EndingAt ==
  ASSUME NEW S, NEW name \in Seq(S), NEW words, words \subseteq Seq(S)
  PROVE  EndsIn(name, words) <=>
           \E i \in 1..Len(name) :
             /\ name[i] = "." /\ SubSeq(name, i + 1, Len(name)) \in words
             /\ \A k \in (i + 1)..Len(name) : name[k] # "."
  <1>1. Len(name) \in Nat
    OBVIOUS
  <1>2. ASSUME NEW i \in 1..Len(name), name[i] = ".", SubSeq(name, i + 1, Len(name)) \in words,
               \A k \in (i + 1)..Len(name) : name[k] # "."
        PROVE  EndsIn(name, words)
    <2> DEFINE word == SubSeq(name, i + 1, Len(name))
    <2>1. word \in Seq(S) /\ word \in words
      BY <1>2
    <2>2. \A k \in DOMAIN word : word[k] # "."
      <3>1. \A k \in DOMAIN word : i + k \in (i + 1)..Len(name) /\ word[k] = name[i + k]
        BY <1>1
      <3> QED
        BY <1>2, <3>1
    <2> HIDE DEF word
    <2>3. name = SubSeq(name, 1, i - 1) \o <<name[i]>> \o word
      BY <2>1, CutAround DEF word
    <2> QED
      BY <1>2, <2>1, <2>2, <2>3 DEF EndsIn
  <1>3. ASSUME EndsIn(name, words)
        PROVE  \E i \in 1..Len(name) :
                 /\ name[i] = "." /\ SubSeq(name, i + 1, Len(name)) \in words
                 /\ \A k \in (i + 1)..Len(name) : name[k] # "."
    <2>1. PICK word \in words : "." \notin {word[i] : i \in DOMAIN word} /\
               \E i \in 1..Len(name) : name = SubSeq(name, 1, i - 1) \o <<".">> \o word
      BY <1>3 DEF EndsIn
    <2>2. PICK i \in 1..Len(name) : name = SubSeq(name, 1, i - 1) \o <<".">> \o word
      BY <2>1
    <2>3. word \in Seq(S) /\ Len(word) \in Nat
      <3>1. word \in Seq(S)
        BY <2>1
      <3> QED
        BY <3>1
    <2> DEFINE p == SubSeq(name, 1, i - 1)
               c == "."
    <2>4. p \in Seq(S) /\ Len(p) + 1 = i
      BY <1>1
    <2>5. name = p \o <<c>> \o word
      BY <2>2
    <2>6. c \in S
      <3>1. name[i] = c
        BY <2>3, <2>4, <2>5
      <3> QED
        BY <3>1
    <2> HIDE DEF p, c
    <2>7. (p \o <<c>> \o word)[Len(p) + 1] = c
      BY <2>3, <2>4, <2>6
    <2>8. name[i] = c
      BY <2>4, <2>5, <2>7
    <2>9. word = SubSeq(name, i + 1, Len(name))
      <3>1. name = SubSeq(name, 1, i - 1) \o <<name[i]>> \o word
        BY <2>2, <2>8 DEF c
      <3> QED
        BY <2>3, <3>1, CutAround
    <2>10. ASSUME NEW k \in (i + 1)..Len(name) PROVE name[k] # "."
      <3>1. k - i \in DOMAIN word /\ word[k - i] = name[k]
        BY <1>1, <2>9
      <3> QED
        BY <2>1, <3>1
    <2> QED
      BY <2>1, <2>8, <2>9, <2>10 DEF c
  <1> QED
    BY <1>2, <1>3

(* The search for the last dot finds exactly the ending.                    *)
LEMMA EndsInFacts ==
  ASSUME NEW S, NEW name \in Seq(S), NEW words, words \subseteq Seq(S)
  PROVE  EndsIn(name, words) <=> FindAfterLast(name, ".") # 1 /\ Extension(name) \in words
  <1> DEFINE dot == FindAfterLast(name, ".")
             ext == Extension(name)
  <1>1. /\ dot \in 1..(Len(name) + 1) /\ Len(name) \in Nat
        /\ dot = 1 \/ name[dot - 1] = "."
        /\ \A i \in dot..Len(name) : name[i] # "."
        /\ ext = SubSeq(name, dot, Len(name))
    BY ExtensionFacts
  <1> HIDE DEF dot, ext
  <1>2. ASSUME dot # 1, ext \in words PROVE EndsIn(name, words)
    <2> DEFINE at == dot - 1
    <2>1. at \in 1..Len(name) /\ name[at] = "." /\ at + 1 = dot
      BY <1>1, <1>2
    <2> HIDE DEF at
    <2>2. SubSeq(name, at + 1, Len(name)) \in words /\ \A k \in (at + 1)..Len(name) : name[k] # "."
      BY <1>1, <1>2, <2>1
    <2> QED
      BY <2>1, <2>2, EndingAt
  <1>3. ASSUME EndsIn(name, words) PROVE dot # 1 /\ ext \in words
    <2>1. PICK i \in 1..Len(name) :
             /\ name[i] = "." /\ SubSeq(name, i + 1, Len(name)) \in words
             /\ \A k \in (i + 1)..Len(name) : name[k] # "."
      BY <1>3, EndingAt
    <2>2. dot = i + 1
      <3>1. ~(dot <= i) /\ ~(dot - 1 > i)
        BY <1>1, <2>1
      <3> QED
        BY <1>1, <3>1
    <2> QED
      BY <1>1, <2>1, <2>2
  <1> QED
    BY <1>2, <1>3 DEF dot, ext

(* get_file_type in a server whose configuration is loaded.                 *)
LEMMA TypeByEnding ==
  ASSUME ConfigInv, phase = "ready", NEW name \in Seq(STRING)
  PROVE  LET type == FileType(name, static_files, cgi_files)
         IN  /\ type \in {"static", "cgi", "invalid"}
             /\ type = "static" <=> EndsIn(name, Words(ini.static))
             /\ type = "cgi" <=> EndsIn(name, Words(ini.cgi)) /\ ~EndsIn(name, Words(ini.static))
             /\ type = "static" => Extension(name) \in static_files
  <1>1. /\ static_files = Words(ini.static) /\ cgi_files = Words(ini.cgi)
        /\ static_files \subseteq Seq(STRING) /\ cgi_files \subseteq Seq(STRING)
    BY DEF ConfigInv, ConfigTypeOK
  <1> DEFINE none == FindAfterLast(name, ".") = 1
             ext == Extension(name)
  <1>2. /\ EndsIn(name, Words(ini.static)) <=> ~none /\ ext \in static_files
        /\ EndsIn(name, Words(ini.cgi)) <=> ~none /\ ext \in cgi_files
    <2> DEFINE S == STRING
    <2>1. name \in Seq(S) /\ static_files \subseteq Seq(S) /\ cgi_files \subseteq Seq(S)
      BY <1>1
    <2> HIDE DEF S
    <2> QED
      BY <1>1, <2>1, EndsInFacts
  <1>3. FileType(name, static_files, cgi_files) =
          IF none THEN "invalid" ELSE IF ext \in static_files THEN "static"
          ELSE IF ext \in cgi_files THEN "cgi" ELSE "invalid"
    BY DEF FileType
  <1> HIDE DEF none, ext
  <1>4. CASE none
    BY <1>2, <1>3, <1>4
  <1>5. CASE ~none /\ ext \in static_files
    BY <1>2, <1>3, <1>5 DEF ext
  <1>6. CASE ~none /\ ext \notin static_files
    BY <1>2, <1>3, <1>6
  <1> QED
    BY <1>4, <1>5, <1>6

(* In a server that started, a file's type is its ending's, for names and   *)
(* lists of any length (config.cpp:43-63).                                  *)
THEOREM EndingDecides == Spec => []TypedByEnding
  <1>1. ConfigInv => TypedByEnding
    <2> SUFFICES ASSUME ConfigInv, phase = "ready" PROVE TypedByEnding
      BY DEF TypedByEnding
    <2>1. ASSUME NEW name \in Names
          PROVE  LET type   == FileType(name, static_files, cgi_files)
                     static == EndsIn(name, Words(ini.static))
                 IN  /\ type = "static" <=> static
                     /\ type = "cgi" <=> EndsIn(name, Words(ini.cgi)) /\ ~static
                     /\ type = "static" => Announced(Extension(name)) = Extension(name)
      <3>1. name \in Seq(STRING)
        BY ConfigAssumption
      <3>2. return_types = static_files
        BY DEF ConfigInv, LoadedExactly
      <3> QED
        BY <3>1, <3>2, TypeByEnding DEF Announced
    <2> QED
      BY <2>1 DEF TypedByEnding
  <1> QED
    BY <1>1, ConfigAlways, PTL

-----------------------------------------------------------------------------
(* The scan.                                                                *)

(* The memory starts with the line and its terminator.                      *)
Placed ==
  /\ line \in Seq(STRING) /\ memory \in Seq(STRING)
  /\ Len(line) \in Nat /\ Len(memory) \in Nat /\ Len(line) < Len(memory)
  /\ \A i \in 1..Len(line) : line[i] # "NUL" /\ memory[i] = line[i]
  /\ memory[Len(line) + 1] = "NUL"

(* Behind the method there was no space up to the pointer.                  *)
Scanned ==
  /\ request \in 0..(Len(memory) + 1)
  /\ IF request = 0 THEN /\ outcome \in {"parsing", "malformed"}
                         /\ outcome = "malformed" => memory[1] # "GET"
     ELSE /\ request >= 2 /\ memory[1] = "GET"
          /\ \A i \in 2..(request - 1) : memory[i] # "SP"
  /\ outcome = "fault" => request > Len(memory)
  /\ outcome = "malformed" /\ request > 0 =>
       /\ request <= Len(memory) /\ memory[request] = "SP"
       /\ ~(request < Len(memory) /\ memory[request + 1] = "HTTP")

Found == {"missing", "denied", "static", "dynamic", "unreachable"}

(* A request that was cut is cut at the space before the protocol.          *)
Cut ==
  /\ path \in Seq(STRING) /\ query \in Seq(STRING)
  /\ outcome \in {"parsing", "malformed", "fault", "parsed"} \cup Found
  /\ outcome \in {"parsed"} \cup Found =>
       /\ 0 < request /\ request < Len(memory)
       /\ memory[request] = "SP" /\ memory[request + 1] = "HTTP"
       /\ path = Part(memory, 2, Find(memory, 2, request, "?"))
       /\ query = QueryPart(Find(memory, 2, request, "?"), request)

(* The answer is what the name's file is to the configuration.              *)
Resolved ==
  outcome \in Found => phase = "ready" /\ outcome = Kind(CStr(Join(Directory, path)))

RequestInv == ConfigInv /\ Placed /\ Scanned /\ Cut /\ Resolved

(* A line, its terminator and what follows.                                 *)
LEMMA Terminated ==
  ASSUME NEW S, NEW s \in Seq(S), NEW c \in S, NEW rest \in Seq(S)
  PROVE  LET m == s \o <<c>> \o rest
         IN  /\ m \in Seq(S) /\ Len(m) \in Nat /\ Len(s) \in Nat /\ Len(s) < Len(m)
             /\ \A i \in 1..Len(s) : m[i] = s[i]
             /\ m[Len(s) + 1] = c
  <1> DEFINE m == s \o <<c>> \o rest
  <1>1. m \in Seq(S) /\ Len(m) = Len(s) + 1 + Len(rest) /\ m[Len(s) + 1] = c
    BY JoinFacts
  <1>2. \A i \in 1..Len(s) : m[i] = s[i]
    BY JoinFacts
  <1>3. Len(s) \in Nat /\ Len(rest) \in Nat
    BY LenProperties
  <1> HIDE DEF m
  <1>4. Len(m) \in Nat /\ Len(s) < Len(m)
    BY <1>1, <1>3
  <1> QED
    BY <1>1, <1>2, <1>3, <1>4 DEF m

LEMMA RequestStarts == Init => RequestInv
  <1> SUFFICES ASSUME Init PROVE RequestInv
    OBVIOUS
  <1>1. ConfigInv
    BY ConfigStarts DEF Init
  <1>2. Placed
    <2>1. PICK case \in Cases : line = case.line
      BY DEF Init
    <2>2. line \in Seq(STRING) /\ \A i \in DOMAIN line : line[i] # "NUL"
      BY <2>1, RequestLineAssumption
    <2>3. PICK rest \in Beyond : memory = line \o <<"NUL">> \o rest
      BY DEF Init
    <2>4. rest \in Seq(STRING)
      BY RequestLineAssumption
    <2> DEFINE S == STRING
               c == "NUL"
    <2>9. c \in S
      BY TerminatorAssumption
    <2>5. line \in Seq(S) /\ rest \in Seq(S) /\ c \in S
      BY <2>2, <2>4, <2>9, Zenon
    <2>8. memory = line \o <<c>> \o rest
      BY <2>3, Zenon
    <2> HIDE DEF S, c
    <2>6. /\ memory \in Seq(S) /\ Len(memory) \in Nat /\ Len(line) \in Nat
          /\ Len(line) < Len(memory) /\ memory[Len(line) + 1] = c
      BY <2>5, <2>8, Terminated
    <2>7. \A i \in 1..Len(line) : memory[i] = line[i]
      BY <2>5, <2>8, Terminated
    <2> QED
      BY <2>2, <2>6, <2>7, LenProperties DEF Placed, S, c
  <1>3. Scanned /\ Resolved
    <2>1. request = 0 /\ outcome = "parsing"
      BY DEF Init
    <2>2. Len(memory) \in Nat
      BY <1>2 DEF Placed
    <2> QED
      BY <2>1, <2>2 DEF Scanned, Resolved, Found
  <1>4. Cut
    BY DEF Init, Cut, Found
  <1> QED
    BY <1>1, <1>2, <1>3, <1>4 DEF RequestInv

LEMMA MethodKeeps ==
  ASSUME RequestInv, Method, UNCHANGED configVars
  PROVE  Placed' /\ Scanned' /\ Cut' /\ Resolved'
  <1>1. /\ outcome = "parsing" /\ request = 0
        /\ UNCHANGED <<line, memory, path, query>>
        /\ \/ memory[1] = "GET" /\ request' = 2 /\ outcome' = "parsing"
           \/ memory[1] # "GET" /\ request' = 0 /\ outcome' = "malformed"
    BY DEF Method
  <1>2. Placed /\ Cut /\ Len(memory) \in Nat /\ Len(memory) >= 1
    BY DEF RequestInv, Placed
  <1>3. Placed'
    BY <1>1, <1>2 DEF Placed
  <1>4. Scanned'
    BY <1>1, <1>2 DEF Scanned
  <1>5. Cut' /\ Resolved'
    BY <1>1, <1>2 DEF Cut, Resolved, Found
  <1> QED
    BY <1>3, <1>4, <1>5

LEMMA ScanKeeps ==
  ASSUME RequestInv, Scan, UNCHANGED configVars
  PROVE  Placed' /\ Scanned' /\ Cut' /\ Resolved'
  <1>1. /\ outcome = "parsing" /\ request > 0
        /\ UNCHANGED <<line, memory, path, query>>
        /\ \/ request > Len(memory) /\ request' = request /\ outcome' = "fault"
           \/ /\ ~(request > Len(memory)) /\ memory[request] # "SP"
              /\ request' = request + 1 /\ outcome' = "parsing"
    BY DEF Scan
  <1>2. Placed /\ Cut /\ Scanned /\ Len(memory) \in Nat /\ request \in 0..(Len(memory) + 1)
    BY DEF RequestInv, Placed, Scanned
  <1>3. Placed'
    BY <1>1, <1>2 DEF Placed
  <1>4. request >= 2 /\ memory[1] = "GET" /\ \A i \in 2..(request - 1) : memory[i] # "SP"
    BY <1>1, <1>2 DEF Scanned
  <1>5. Scanned'
    <2>1. CASE outcome' = "fault"
      BY <1>1, <1>2, <1>4, <2>1 DEF Scanned
    <2>2. CASE outcome' = "parsing"
      <3>1. /\ ~(request > Len(memory)) /\ memory[request] # "SP"
            /\ request' = request + 1 /\ memory' = memory
        BY <1>1, <2>2
      <3>2. request' \in 0..(Len(memory) + 1) /\ request' # 0 /\ request' >= 2
        BY <1>2, <1>4, <3>1
      <3>3. ASSUME NEW i \in 2..(request' - 1) PROVE memory[i] # "SP"
        <4>1. i \in 2..(request - 1) \/ i = request
          BY <1>2, <3>1
        <4> QED
          BY <1>4, <3>1, <4>1
      <3> QED
        BY <1>4, <2>2, <3>1, <3>2, <3>3 DEF Scanned
    <2> QED
      BY <1>1, <2>1, <2>2
  <1>6. Cut' /\ Resolved'
    BY <1>1, <1>2 DEF Cut, Resolved, Found
  <1> QED
    BY <1>3, <1>5, <1>6

LEMMA SplitKeeps ==
  ASSUME RequestInv, Split, UNCHANGED configVars
  PROVE  Placed' /\ Scanned' /\ Cut' /\ Resolved'
  <1> DEFINE delim == Find(memory, 2, request, "?")
             P == Part(memory, 2, delim)
             Q == QueryPart(delim, request)
  <1>1. /\ outcome = "parsing" /\ request \in 2..Len(memory) /\ memory[request] = "SP"
        /\ UNCHANGED <<line, memory, request>>
        /\ \/ /\ request < Len(memory) /\ memory[request + 1] = "HTTP"
              /\ path' = P /\ query' = Q /\ outcome' = "parsed"
           \/ /\ ~(request < Len(memory) /\ memory[request + 1] = "HTTP")
              /\ path' = path /\ query' = query /\ outcome' = "malformed"
    BY DEF Split, IsProtocol
  <1>2. Placed /\ Cut /\ Scanned /\ Len(memory) \in Nat /\ memory \in Seq(STRING)
    BY DEF RequestInv, Placed
  <1>3. Placed'
    BY <1>1, <1>2 DEF Placed
  <1>4. Scanned'
    <2>1. request' = request /\ memory' = memory /\ request # 0 /\ request > 0
          /\ request <= Len(memory) /\ outcome' \in {"parsed", "malformed"}
      BY <1>1, <1>2
    <2> HIDE DEF P, Q
    <2> QED
      BY <1>1, <1>2, <2>1 DEF Scanned
  <1>5. P \in Seq(STRING) /\ Q \in Seq(STRING)
    <2>1. request \in Nat /\ 2 <= request /\ request <= Len(memory)
      BY <1>1, <1>2
    <2>2. delim \in Nat /\ 2 <= delim /\ delim <= request
      BY <2>1, FindFacts
    <2> HIDE DEF delim
    <2>3. P \in Seq(STRING)
      <3>1. \A i \in 2..(delim - 1) : memory[i] \in STRING
        BY <1>2, <2>1, <2>2
      <3> QED
        BY <1>2, <2>1, <2>2, PartFacts
    <2>4. Q \in Seq(STRING)
      <3>1. CASE delim = request
        BY <3>1 DEF QueryPart
      <3>2. CASE delim # request
        <4>1. delim + 1 \in Nat /\ 1 <= delim + 1 /\ delim + 1 <= request /\ request <= Len(memory) + 1
          BY <1>2, <2>1, <2>2, <3>2
        <4>2. Part(memory, delim + 1, request) \in Seq(STRING)
          BY <1>2, <2>1, <4>1, PartFacts
        <4> QED
          BY <3>2, <4>2 DEF QueryPart
      <3> QED
        BY <3>1, <3>2
    <2> QED
      BY <2>3, <2>4
  <1>6. Cut'
    <2>1. CASE outcome' = "parsed"
      <3>1. /\ path' = P /\ query' = Q /\ request < Len(memory) /\ memory[request + 1] = "HTTP"
            /\ 0 < request
        BY <1>1, <1>2, <2>1
      <3>2. Q = QueryPart(delim, request)'
        BY <1>1 DEF QueryPart
      <3>3. P = (Part(memory, 2, Find(memory, 2, request, "?")))'
        BY <1>1
      <3> HIDE DEF P, Q
      <3> QED
        BY <1>1, <1>5, <2>1, <3>1, <3>2, <3>3 DEF Cut
    <2>2. CASE outcome' = "malformed"
      <3>1. path' = path /\ query' = query
        BY <1>1, <2>2
      <3> QED
        BY <1>2, <2>2, <3>1 DEF Cut, Found
    <2> QED
      BY <1>1, <2>1, <2>2
  <1>7. Resolved'
    <2>1. outcome' \in {"parsed", "malformed"}
      BY <1>1
    <2> QED
      BY <2>1 DEF Resolved, Found
  <1> QED
    BY <1>3, <1>4, <1>6, <1>7

LEMMA ResolveKeeps ==
  ASSUME RequestInv, phase = "ready", Resolve, UNCHANGED configVars
  PROVE  Placed' /\ Scanned' /\ Cut' /\ Resolved'
  <1> DEFINE name == CStr(Join(Directory, path))
  <1>1. /\ outcome = "parsed" /\ outcome' = Kind(name)
        /\ UNCHANGED <<line, memory, request, path, query>>
    BY DEF Resolve
  <1>2. ConfigInv /\ Placed /\ Cut /\ Scanned /\ Len(memory) \in Nat
    BY DEF RequestInv, Placed
  <1>3. Kind(name) \in Found
    <2>1. FileType(name, static_files, cgi_files) \in {"static", "cgi", "invalid"}
      BY DEF FileType
    <2> HIDE DEF name
    <2> QED
      BY <2>1 DEF Kind, Found
  <1>4. Kind(name)' = Kind(name)
    BY <1>1 DEF Kind, configVars
  <1> HIDE DEF name
  <1>5. Placed'
    BY <1>1, <1>2 DEF Placed
  <1>6. Scanned'
    <2>1. outcome' # "parsing" /\ outcome' # "malformed" /\ outcome' # "fault" /\ request > 0
      BY <1>1, <1>2, <1>3 DEF Found, Cut
    <2> QED
      BY <1>1, <1>2, <2>1 DEF Scanned
  <1>7. Cut'
    <2>1. outcome' \in Found
      BY <1>1, <1>3
    <2>2. QueryPart(Find(memory, 2, request, "?"), request)'
            = QueryPart(Find(memory, 2, request, "?"), request)
      BY <1>1 DEF QueryPart
    <2> QED
      BY <1>1, <1>2, <2>1, <2>2 DEF Cut
  <1>8. Resolved'
    BY <1>1, <1>4 DEF Resolved, configVars, name
  <1> QED
    BY <1>5, <1>6, <1>7, <1>8

LEMMA ReadKeeps ==
  RequestInv /\ phase = "ready" /\ Read /\ UNCHANGED configVars => RequestInv'
  <1>1. ASSUME RequestInv, UNCHANGED configVars PROVE ConfigInv'
    BY <1>1, ConfigStays DEF RequestInv
  <1> QED
    BY <1>1, MethodKeeps, ScanKeeps, SplitKeeps, ResolveKeeps DEF Read, RequestInv

(* The constructor runs before anything is answered.                        *)
LEMMA ConfigureKeepsAll ==
  RequestInv /\ Configure /\ UNCHANGED requestVars => RequestInv'
  <1> SUFFICES ASSUME RequestInv, Configure, UNCHANGED requestVars PROVE RequestInv'
    OBVIOUS
  <1>1. ConfigInv'
    BY ConfigureKeeps DEF RequestInv
  <1>2. phase # "ready"
    BY DEF Configure, Throw, LoadStatic, LoadCgi, ReturnType
  <1>3. outcome \notin Found
    BY <1>2 DEF RequestInv, Resolved
  <1>4. /\ UNCHANGED <<line, memory, request, path, query, outcome>>
        /\ Placed /\ Scanned /\ Cut
    BY DEF requestVars, RequestInv
  <1>5. Placed' /\ Scanned'
    BY <1>4 DEF Placed, Scanned
  <1>6. Cut'
    <2>1. QueryPart(Find(memory, 2, request, "?"), request)'
            = QueryPart(Find(memory, 2, request, "?"), request)
      BY <1>4 DEF QueryPart
    <2> QED
      BY <1>4, <2>1 DEF Cut, Found
  <1>7. Resolved'
    BY <1>3, <1>4 DEF Resolved, Found
  <1> QED
    BY <1>1, <1>5, <1>6, <1>7 DEF RequestInv

LEMMA RequestStays == RequestInv /\ UNCHANGED vars => RequestInv'
  <1> SUFFICES ASSUME RequestInv, UNCHANGED vars PROVE RequestInv'
    OBVIOUS
  <1>1. ConfigInv'
    BY ConfigStays DEF RequestInv, vars
  <1>2. /\ UNCHANGED <<line, memory, request, path, query, outcome>>
        /\ UNCHANGED <<phase, static_files, cgi_files>>
        /\ Placed /\ Scanned /\ Cut /\ Resolved
    BY DEF vars, requestVars, configVars, RequestInv
  <1>3. Placed' /\ Scanned'
    BY <1>2 DEF Placed, Scanned
  <1>4. Cut'
    <2>1. QueryPart(Find(memory, 2, request, "?"), request)'
            = QueryPart(Find(memory, 2, request, "?"), request)
      BY <1>2 DEF QueryPart
    <2> QED
      BY <1>2, <2>1 DEF Cut, Found
  <1>5. Resolved'
    <2> DEFINE name == CStr(Join(Directory, path))
    <2>1. Kind(name)' = Kind(name)
      BY <1>2 DEF Kind
    <2> QED
      BY <1>2, <2>1 DEF Resolved
  <1> QED
    BY <1>1, <1>3, <1>4, <1>5 DEF RequestInv

LEMMA RequestAlways == Spec => []RequestInv
  <1>1. RequestInv /\ [Next]_vars => RequestInv'
    BY ReadKeeps, ConfigureKeepsAll, RequestStays DEF Next
  <1> QED
    BY <1>1, RequestStarts, PTL DEF Spec

(* The pointer stays in the memory or is one behind it, whatever the line.  *)
THEOREM RequestTyped == Spec => []TypeOK
  <1>1. RequestInv => TypeOK
    BY DEF RequestInv, ConfigInv, Placed, Scanned, Cut, Found, TypeOK, End
  <1> QED
    BY <1>1, RequestAlways, PTL

-----------------------------------------------------------------------------
(* Lines that are requests.                                                 *)

(* The place of the space before the protocol.                              *)
SpaceAt(sp) ==
  /\ sp \in Nat /\ 2 <= sp /\ sp < Len(line)
  /\ line[1] = "GET" /\ line[sp] = "SP" /\ line[sp + 1] = "HTTP"
  /\ \A i \in 2..(sp - 1) : line[i] # "SP"

(* A method, a target, two words of one character each.                     *)
IsFrame(s, g, t, a, b) == SubSeq(s, 1, Len(t) + 3) = <<g>> \o t \o <<a, b>>

LEMMA Framed ==
  ASSUME NEW S, NEW s \in Seq(S), NEW g \in S, NEW a \in S, NEW b \in S, NEW t \in Seq(S),
         Len(s) >= Len(t) + 3
  PROVE  IsFrame(s, g, t, a, b) <=>
           /\ s[1] = g /\ s[Len(t) + 2] = a /\ s[Len(t) + 3] = b
           /\ t = SubSeq(s, 2, Len(t) + 1)
  <1> DEFINE r == SubSeq(s, 1, Len(t) + 3)
             q == <<g>> \o t \o <<a, b>>
  <1>1. /\ r \in Seq(S) /\ q \in Seq(S) /\ Len(r) = Len(t) + 3 /\ Len(q) = Len(t) + 3
        /\ r[1] = s[1] /\ r[Len(t) + 2] = s[Len(t) + 2] /\ r[Len(t) + 3] = s[Len(t) + 3]
        /\ q[1] = g /\ q[Len(t) + 2] = a /\ q[Len(t) + 3] = b
    OBVIOUS
  <1>2. SubSeq(q, 2, Len(t) + 1) = t
    OBVIOUS
  <1>3. SubSeq(r, 2, Len(t) + 1) = SubSeq(s, 2, Len(t) + 1)
    OBVIOUS
  <1>4. ASSUME r = q
        PROVE  s[1] = g /\ s[Len(t) + 2] = a /\ s[Len(t) + 3] = b /\ t = SubSeq(s, 2, Len(t) + 1)
    <2> HIDE DEF r, q
    <2> QED
      BY <1>1, <1>2, <1>3, <1>4
  <1>5. ASSUME s[1] = g, s[Len(t) + 2] = a, s[Len(t) + 3] = b, t = SubSeq(s, 2, Len(t) + 1)
        PROVE  r = q
    <2>1. ASSUME NEW i \in 1..(Len(t) + 3) PROVE r[i] = q[i]
      <3>1. CASE i = 1 \/ i = Len(t) + 2 \/ i = Len(t) + 3
        <4> HIDE DEF r, q
        <4> QED
          BY <1>1, <1>5, <3>1
      <3>2. CASE i \in 2..(Len(t) + 1)
        <4>1. q[i] = t[i - 1] /\ r[i] = s[i] /\ i - 1 \in 1..Len(t)
          BY <3>2
        <4>2. SubSeq(s, 2, Len(t) + 1)[i - 1] = s[i]
          BY <3>2
        <4> HIDE DEF r, q
        <4> QED
          BY <1>5, <4>1, <4>2
      <3> QED
        BY <3>1, <3>2
    <2> HIDE DEF r, q
    <2> QED
      BY <1>1, <2>1, SeqEqual
  <1> QED
    BY <1>4, <1>5 DEF IsFrame, r, q

LEMMA TargetHasSpace ==
  ASSUME Placed, NEW t \in Targets, Target(t)
  PROVE  SpaceAt(Len(t) + 2) /\ t = SubSeq(line, 2, Len(t) + 1)
  <1>1. line \in Seq(STRING) /\ Len(line) \in Nat
    BY DEF Placed
  <1>2. t \in Seq(STRING) /\ Len(t) \in Nat
    <2>1. PICK i \in 1..Len(line) : t = SubSeq(line, 2, i)
      BY DEF Targets
    <2> QED
      BY <1>1, <2>1
  <1>3. /\ "SP" \notin {t[i] : i \in DOMAIN t} /\ Len(line) >= Len(t) + 3
        /\ SubSeq(line, 1, Len(t) + 3) = <<"GET">> \o t \o <<"SP", "HTTP">>
    BY DEF Target
  <1> DEFINE g == "GET"
             a == "SP"
             b == "HTTP"
             S == STRING \cup {g, a, b}
             sp == Len(t) + 2
  <1>4. IsFrame(line, g, t, a, b)
    BY <1>3 DEF IsFrame
  <1>7. line \in Seq(S) /\ t \in Seq(S) /\ g \in S /\ a \in S /\ b \in S
    BY <1>1, <1>2, Widen
  <1> HIDE DEF g, a, b, S
  <1>5. /\ line[1] = g /\ line[Len(t) + 2] = a /\ line[Len(t) + 3] = b
        /\ t = SubSeq(line, 2, Len(t) + 1)
    BY <1>3, <1>4, <1>7, Framed
  <1>6. ASSUME NEW i \in 2..(sp - 1) PROVE line[i] # "SP"
    <2>1. i - 1 \in 1..Len(t)
      BY <1>2
    <2>2. SubSeq(line, 2, Len(t) + 1)[i - 1] = line[i]
      BY <1>1, <1>2, <1>3
    <2>3. t[i - 1] # "SP"
      BY <1>2, <1>3, <2>1
    <2> QED
      BY <1>5, <2>2, <2>3
  <1> QED
    BY <1>1, <1>2, <1>3, <1>5, <1>6 DEF SpaceAt, g, a, b
LEMMA SpaceHasTarget ==
  ASSUME Placed, NEW sp, SpaceAt(sp)
  PROVE  SubSeq(line, 2, sp - 1) \in Targets /\ Target(SubSeq(line, 2, sp - 1))
  <1>1. /\ line \in Seq(STRING) /\ Len(line) \in Nat
        /\ sp \in Nat /\ 2 <= sp /\ sp < Len(line)
    BY DEF Placed, SpaceAt
  <1> DEFINE t == SubSeq(line, 2, sp - 1)
             g == "GET"
             a == "SP"
             b == "HTTP"
             S == STRING \cup {g, a, b}
  <1>2. t \in Seq(STRING) /\ Len(t) = sp - 2 /\ \A i \in 1..Len(t) : t[i] = line[i + 1]
    BY <1>1
  <1>3. t \in Targets
    BY <1>1 DEF Targets
  <1>4. /\ line \in Seq(S) /\ t \in Seq(S) /\ g \in S /\ a \in S /\ b \in S
        /\ Len(line) >= Len(t) + 3
    BY <1>1, <1>2, Widen
  <1>5. Len(t) + 2 = sp /\ Len(t) + 3 = sp + 1 /\ Len(t) + 1 = sp - 1
    BY <1>1, <1>2
  <1>6. /\ line[1] = g /\ line[Len(t) + 2] = a /\ line[Len(t) + 3] = b
        /\ t = SubSeq(line, 2, Len(t) + 1)
    BY <1>5 DEF SpaceAt
  <1> HIDE DEF t
  <1>7. IsFrame(line, g, t, a, b)
    <2> HIDE DEF g, a, b, S
    <2> QED
      BY <1>4, <1>6, Framed
  <1>8. "SP" \notin {t[i] : i \in DOMAIN t}
    <2>1. ASSUME NEW i \in 1..Len(t) PROVE t[i] # "SP"
      <3>1. i + 1 \in 2..(sp - 1) /\ t[i] = line[i + 1]
        BY <1>1, <1>2
      <3> QED
        BY <3>1 DEF SpaceAt
    <2> QED
      BY <1>2, <2>1
  <1>9. Target(t)
    BY <1>4, <1>7, <1>8 DEF Target, IsFrame
  <1> QED
    BY <1>3, <1>9 DEF t

(* A scan of a request stops at its space, if not before.                   *)
LEMMA ScanMeetsSpace ==
  ASSUME RequestInv, NEW sp, SpaceAt(sp)
  PROVE  /\ request <= sp /\ request <= Len(line)
         /\ request > 0 /\ memory[request] = "SP" => request = sp
         /\ outcome # "fault" /\ outcome # "malformed"
  <1>1. /\ Len(line) \in Nat /\ Len(memory) \in Nat /\ Len(line) < Len(memory)
        /\ \A i \in 1..Len(line) : memory[i] = line[i]
        /\ request \in 0..(Len(memory) + 1)
    BY DEF RequestInv, Placed, Scanned
  <1>2. /\ sp \in Nat /\ 2 <= sp /\ sp < Len(line)
        /\ line[1] = "GET" /\ line[sp] = "SP" /\ line[sp + 1] = "HTTP"
        /\ \A i \in 2..(sp - 1) : line[i] # "SP"
    BY DEF SpaceAt
  <1>3. 1 \in 1..Len(line) /\ sp \in 1..Len(line) /\ sp + 1 \in 1..Len(line)
    BY <1>1, <1>2
  <1>4. memory[1] = "GET" /\ memory[sp] = "SP" /\ memory[sp + 1] = "HTTP"
    BY <1>1, <1>2, <1>3
  <1>5. \A i \in 2..(sp - 1) : memory[i] # "SP"
    <2>1. \A i \in 2..(sp - 1) : i \in 1..Len(line)
      BY <1>1, <1>2
    <2> QED
      BY <1>1, <1>2, <2>1
  <1>6. request > 0 => request >= 2 /\ \A i \in 2..(request - 1) : memory[i] # "SP"
    BY <1>1 DEF RequestInv, Scanned
  <1>7. request <= sp
    <2>1. CASE request > sp
      <3>1. request >= 2 /\ sp \in 2..(request - 1)
        BY <1>1, <1>2, <1>6, <2>1
      <3> QED
        BY <1>1, <1>2, <1>4, <1>6, <2>1, <3>1
    <2> QED
      BY <1>1, <1>2, <2>1
  <1>8. ASSUME request > 0, memory[request] = "SP" PROVE request = sp
    <2>1. CASE request < sp
      <3>1. request \in 2..(sp - 1)
        BY <1>1, <1>2, <1>6, <1>8, <2>1
      <3> QED
        BY <1>5, <1>8, <3>1
    <2> QED
      BY <1>1, <1>2, <1>7, <2>1
  <1>9. outcome # "fault"
    <2>1. outcome = "fault" => request > Len(memory)
      BY DEF RequestInv, Scanned
    <2> QED
      BY <1>1, <1>2, <1>7, <2>1
  <1>10. outcome # "malformed"
    <2>1. ASSUME outcome = "malformed", request = 0 PROVE FALSE
      BY <1>4, <2>1 DEF RequestInv, Scanned
    <2>2. ASSUME outcome = "malformed", request > 0 PROVE FALSE
      <3>1. memory[request] = "SP" /\ ~(request < Len(memory) /\ memory[request + 1] = "HTTP")
        BY <2>2 DEF RequestInv, Scanned
      <3>2. request = sp
        BY <1>8, <2>2, <3>1
      <3> QED
        BY <1>1, <1>2, <1>4, <3>1, <3>2
    <2> QED
      BY <1>1, <2>1, <2>2
  <1> QED
    BY <1>1, <1>2, <1>7, <1>8, <1>9, <1>10

(* A cut in the line is a request.                                          *)
LEMMA CutInLine ==
  ASSUME RequestInv, InLine, outcome \in {"parsed"} \cup Found
  PROVE  SpaceAt(request)
  <1>1. /\ Len(line) \in Nat /\ Len(memory) \in Nat /\ Len(line) < Len(memory)
        /\ \A i \in 1..Len(line) : memory[i] = line[i]
        /\ memory[Len(line) + 1] = "NUL"
        /\ request \in 0..(Len(memory) + 1) /\ request <= Len(line)
    BY DEF RequestInv, Placed, Scanned, InLine
  <1>2. /\ 0 < request /\ memory[request] = "SP" /\ memory[request + 1] = "HTTP"
    BY DEF RequestInv, Cut
  <1>3. request >= 2 /\ memory[1] = "GET" /\ \A i \in 2..(request - 1) : memory[i] # "SP"
    BY <1>1, <1>2 DEF RequestInv, Scanned
  <1>4. request < Len(line)
    BY <1>1, <1>2
  <1>5. /\ 1 \in 1..Len(line) /\ request \in 1..Len(line) /\ request + 1 \in 1..Len(line)
        /\ \A i \in 2..(request - 1) : i \in 1..Len(line)
    BY <1>1, <1>3, <1>4
  <1>6. line[1] = "GET" /\ line[request] = "SP" /\ line[request + 1] = "HTTP"
    BY <1>1, <1>2, <1>3, <1>5
  <1>7. \A i \in 2..(request - 1) : line[i] # "SP"
    BY <1>1, <1>3, <1>5
  <1> QED
    BY <1>1, <1>3, <1>4, <1>6, <1>7 DEF SpaceAt

(* No line that is a request is refused or read past its end, whatever      *)
(* follows it in memory (request.cpp:51-61).                                *)
THEOREM RequestsAccepted == Spec => []RefusedUnlessRequest
  <1>1. RequestInv => RefusedUnlessRequest
    <2> SUFFICES ASSUME RequestInv PROVE RefusedUnlessRequest
      OBVIOUS
    <2>1. Placed
      BY DEF RequestInv
    <2>2. ASSUME IsRequest PROVE outcome # "fault" /\ outcome # "malformed" /\ InLine
      <3>1. PICK t \in Targets : Target(t)
        BY <2>2 DEF IsRequest
      <3>2. SpaceAt(Len(t) + 2)
        BY <2>1, <3>1, TargetHasSpace
      <3> QED
        BY <3>2, ScanMeetsSpace DEF InLine
    <2>3. ASSUME InLine, outcome \in {"parsed", "missing", "denied", "static", "dynamic", "unreachable"}
          PROVE  IsRequest
      <3>1. SpaceAt(request)
        BY <2>3, CutInLine DEF Found
      <3> QED
        BY <2>1, <3>1, SpaceHasTarget DEF IsRequest
    <2> QED
      BY <2>2, <2>3 DEF RefusedUnlessRequest
  <1> QED
    BY <1>1, RequestAlways, PTL

-----------------------------------------------------------------------------
(* What a request is answered by.                                           *)

(* A directory without a dot has no say in a name's ending.                 *)
LEMMA EndingBehind ==
  ASSUME NEW S, NEW d \in Seq(S), NEW p \in Seq(S), NEW words, words \subseteq Seq(S),
         \A i \in 1..Len(d) : d[i] # "."
  PROVE  EndsIn(d \o p, words) <=> EndsIn(p, words)
  <1> DEFINE q == d \o p
             l == Len(d)
  <1>1. /\ q \in Seq(S) /\ l \in Nat /\ Len(p) \in Nat /\ Len(q) = l + Len(p)
        /\ \A i \in 1..l : q[i] = d[i]
    OBVIOUS
  <1>2. \A i \in 1..Len(p) : q[l + i] = p[i]
    OBVIOUS
  <1>3. ASSUME NEW i \in 1..Len(p)
        PROVE  SubSeq(q, l + i + 1, Len(q)) = SubSeq(p, i + 1, Len(p))
    OBVIOUS
  <1> HIDE DEF q, l
  <1>4. ASSUME EndsIn(p, words) PROVE EndsIn(q, words)
    <2>1. PICK i \in 1..Len(p) :
             /\ p[i] = "." /\ SubSeq(p, i + 1, Len(p)) \in words
             /\ \A k \in (i + 1)..Len(p) : p[k] # "."
      BY <1>4, EndingAt
    <2>2. l + i \in 1..Len(q) /\ q[l + i] = "."
      BY <1>1, <1>2, <2>1
    <2>3. SubSeq(q, l + i + 1, Len(q)) \in words
      BY <1>3, <2>1
    <2>4. ASSUME NEW k \in (l + i + 1)..Len(q) PROVE q[k] # "."
      <3>1. k - l \in (i + 1)..Len(p) /\ k - l \in 1..Len(p) /\ l + (k - l) = k
        BY <1>1
      <3> QED
        BY <1>2, <2>1, <3>1
    <2> QED
      BY <1>1, <2>2, <2>3, <2>4, EndingAt
  <1>5. ASSUME EndsIn(q, words) PROVE EndsIn(p, words)
    <2>1. PICK j \in 1..Len(q) :
             /\ q[j] = "." /\ SubSeq(q, j + 1, Len(q)) \in words
             /\ \A k \in (j + 1)..Len(q) : q[k] # "."
      BY <1>1, <1>5, EndingAt
    <2>2. ~(j <= l)
      <3>1. j <= l => j \in 1..l
        BY <1>1
      <3> QED
        BY <1>1, <2>1, <3>1 DEF l
    <2> DEFINE i == j - l
    <2>3. i \in 1..Len(p) /\ l + i = j
      BY <1>1, <2>2
    <2> HIDE DEF i
    <2>4. p[i] = "." /\ SubSeq(p, i + 1, Len(p)) \in words
      BY <1>2, <1>3, <2>1, <2>3
    <2>5. ASSUME NEW k \in (i + 1)..Len(p) PROVE p[k] # "."
      <3>1. l + k \in (j + 1)..Len(q) /\ k \in 1..Len(p)
        BY <1>1, <2>3
      <3> QED
        BY <1>2, <2>1, <3>1
    <2> QED
      BY <2>3, <2>4, <2>5, EndingAt
  <1> QED
    BY <1>4, <1>5 DEF q

(* A name without a terminator is the name that the file system sees.       *)
LEMMA WholeName ==
  ASSUME NEW S, NEW name \in Seq(S), \A i \in 1..Len(name) : name[i] # "NUL"
  PROVE  CStr(name) = name
  <1> DEFINE e == Find(name, 1, End(name), "NUL")
  <1>1. Len(name) \in Nat /\ End(name) = Len(name) + 1
    BY LenProperties DEF End
  <1>2. e \in Nat /\ 1 <= e /\ e <= End(name) /\ (e = End(name) \/ name[e] = "NUL")
    BY <1>1, FindFacts
  <1> HIDE DEF e
  <1>3. e - 1 = Len(name)
    BY <1>1, <1>2
  <1>4. SubSeq(name, 1, Len(name)) = name
    OBVIOUS
  <1> QED
    BY <1>3, <1>4 DEF CStr, Part, e

(* The two parts of a target, around its first question mark.               *)
Parted(m, sp, delim) ==
  LET t == SubSeq(m, 2, sp - 1)
      p == Part(m, 2, delim)
  IN  /\ \A i \in 1..Len(p) : p[i] # "?" /\ p[i] = m[i + 1] /\ i + 1 < sp
      /\ delim = sp => t = p \o <<>> /\ \A i \in DOMAIN t : t[i] # "?"
      /\ delim # sp => /\ t = p \o <<"?">> \o Part(m, delim + 1, sp)
                       /\ \E i \in DOMAIN t : t[i] = "?"

LEMMA TargetParts ==
  ASSUME NEW S, NEW m \in Seq(S), NEW sp \in Nat, 2 <= sp, sp <= Len(m),
         NEW delim \in 2..sp, delim = sp \/ m[delim] = "?",
         \A i \in 2..(delim - 1) : m[i] # "?"
  PROVE  Parted(m, sp, delim)
  <1> DEFINE p == SubSeq(m, 2, delim - 1)
             t == SubSeq(m, 2, sp - 1)
  <1>1. p \in Seq(S) /\ Len(p) = delim - 2 /\ t \in Seq(S) /\ Len(t) = sp - 2
    OBVIOUS
  <1>2. \A i \in 1..Len(p) : p[i] = m[i + 1]
    OBVIOUS
  <1>3. \A i \in 1..Len(t) : t[i] = m[i + 1]
    OBVIOUS
  <1>4. delim = sp => t = p
    OBVIOUS
  <1>5. delim # sp => /\ SubSeq(t, 1, (delim - 1) - 1) = p
                      /\ SubSeq(t, (delim - 1) + 1, Len(t)) = SubSeq(m, delim + 1, sp - 1)
    <2>1. ASSUME delim # sp PROVE SubSeq(t, 1, (delim - 1) - 1) = p
      BY <2>1
    <2>2. ASSUME delim # sp
          PROVE  SubSeq(t, (delim - 1) + 1, Len(t)) = SubSeq(m, delim + 1, sp - 1)
      BY <2>2
    <2> QED
      BY <2>1, <2>2
  <1>6. p = Part(m, 2, delim)
    BY DEF Part
  <1> HIDE DEF p, t
  <1>7. ASSUME NEW i \in 1..Len(p) PROVE p[i] # "?" /\ i + 1 < sp
    <2>1. i + 1 \in 2..(delim - 1) /\ i + 1 < sp
      BY <1>1
    <2> QED
      BY <1>2, <2>1
  <1>8. ASSUME delim = sp PROVE t = p \o <<>> /\ \A i \in DOMAIN t : t[i] # "?"
    <2>1. t = p /\ DOMAIN t = 1..Len(p)
      BY <1>1, <1>4, <1>8
    <2>2. p \o <<>> = p
      BY <1>1
    <2> QED
      BY <1>7, <2>1, <2>2
  <1>9. ASSUME delim # sp
        PROVE  /\ t = p \o <<"?">> \o Part(m, delim + 1, sp)
               /\ \E i \in DOMAIN t : t[i] = "?"
    <2> DEFINE at == delim - 1
               rest == SubSeq(t, at + 1, Len(t))
    <2>1. at \in 1..Len(t) /\ at + 1 = delim /\ at \in DOMAIN t
      BY <1>1, <1>9
    <2>2. t[at] = "?"
      BY <1>3, <1>9, <2>1
    <2>3. SubSeq(t, 1, at - 1) = p /\ rest = Part(m, delim + 1, sp)
      BY <1>5, <1>9 DEF Part
    <2>4. rest \in Seq(S) /\ rest = SubSeq(t, at + 1, Len(t))
      BY <1>1, <2>1
    <2> HIDE DEF at, rest
    <2>5. t = SubSeq(t, 1, at - 1) \o <<t[at]>> \o rest
      BY <1>1, <2>1, <2>4, CutAt
    <2> QED
      BY <2>1, <2>2, <2>3, <2>5
  <1> QED
    BY <1>2, <1>6, <1>7, <1>8, <1>9 DEF Parted, t

(* The directory, with its separator, has no say in the name's ending.      *)
LEMMA JoinedTo ==
  ASSUME NEW p \in Seq(STRING)
  PROVE  \E d \in Seq(STRING) : /\ Join(Directory, p) = d \o p
                                /\ \A i \in 1..Len(d) : d[i] # "NUL" /\ d[i] # "."
  <1> DEFINE S == STRING
             slash == "/"
             D == Directory
             e == D \o <<slash>>
  <1>1. /\ D \in Seq(S) /\ slash \in S /\ slash # "NUL" /\ slash # "."
        /\ \A i \in 1..Len(D) : D[i] # "NUL" /\ D[i] # "."
    BY RequestLineAssumption, TerminatorAssumption
  <1>2. Join(Directory, p) = D \o p \/ Join(Directory, p) = D \o <<slash>> \o p
    BY DEF Join
  <1> HIDE DEF S, D, slash
  <1>3. /\ e \in Seq(S) /\ Len(e) = Len(D) + 1 /\ e[Len(D) + 1] = slash
        /\ \A i \in 1..Len(D) : e[i] = D[i]
    BY <1>1
  <1>4. \A i \in 1..Len(e) : e[i] # "NUL" /\ e[i] # "."
    <2>1. \A i \in 1..Len(e) : i \in 1..Len(D) \/ i = Len(D) + 1
      BY <1>1, <1>3
    <2> HIDE DEF e
    <2> QED
      BY <1>1, <1>3, <2>1
  <1> QED
    BY <1>1, <1>2, <1>3, <1>4 DEF S

(* The name looked up is the directory and the path, whose ending decides.  *)
LEMMA AnsweredByEnding ==
  ASSUME RequestInv, outcome \in Found, "NUL" \notin {path[i] : i \in DOMAIN path}
  PROVE  LET name    == Join(Directory, path)
             regular == name \in Regular
             static  == EndsIn(path, Words(ini.static))
         IN  /\ outcome = "unreachable" <=> name \in Unreachable
             /\ outcome = "missing" <=> name \notin Regular \cup Unreachable
             /\ outcome = "static" <=> regular /\ static
             /\ outcome = "dynamic" <=> regular /\ EndsIn(path, Words(ini.cgi)) /\ ~static
  <1> DEFINE S == STRING
             name == Join(Directory, path)
             static == EndsIn(path, Words(ini.static))
             cgi == EndsIn(path, Words(ini.cgi))
             type == FileType(name, static_files, cgi_files)
  <1>1. path \in Seq(S)
    BY DEF RequestInv, Cut
  <1>0. PICK d \in Seq(S) : /\ name = d \o path
                            /\ \A i \in 1..Len(d) : d[i] # "NUL" /\ d[i] # "."
    BY <1>1, JoinedTo
  <1>2. /\ ConfigInv /\ phase = "ready" /\ outcome = Kind(CStr(name))
        /\ static_files = Words(ini.static) /\ cgi_files = Words(ini.cgi)
        /\ static_files \subseteq Seq(S) /\ cgi_files \subseteq Seq(S)
    BY DEF RequestInv, Resolved, ConfigInv, ConfigTypeOK
  <1>3. name \in Seq(S) /\ \A i \in 1..Len(name) : name[i] # "NUL"
    <2>1. \A i \in 1..Len(path) : path[i] # "NUL"
      BY <1>1
    <2> HIDE DEF name
    <2> QED
      BY <1>0, <1>1, <2>1
  <1>4. CStr(name) = name
    <2> HIDE DEF S, name
    <2> QED
      BY <1>3, WholeName
  <1>5. /\ EndsIn(name, static_files) <=> static
        /\ EndsIn(name, cgi_files) <=> cgi
    <2> HIDE DEF S, name
    <2>1. EndsIn(name, static_files) <=> EndsIn(path, static_files)
      BY <1>0, <1>1, <1>2, EndingBehind
    <2>2. EndsIn(name, cgi_files) <=> EndsIn(path, cgi_files)
      BY <1>0, <1>1, <1>2, EndingBehind
    <2> QED
      BY <1>2, <2>1, <2>2
  <1>6. /\ type \in {"static", "cgi", "invalid"}
        /\ type = "static" <=> static
        /\ type = "cgi" <=> cgi /\ ~static
    <2>1. name \in Seq(STRING)
      BY <1>3
    <2> HIDE DEF name
    <2>2. /\ type \in {"static", "cgi", "invalid"}
          /\ type = "static" <=> EndsIn(name, static_files)
          /\ type = "cgi" <=> EndsIn(name, cgi_files) /\ ~EndsIn(name, static_files)
      BY <1>2, <2>1, TypeByEnding
    <2> HIDE DEF type, static, cgi
    <2> QED
      BY <1>5, <2>2
  <1>12. Regular \cap Unreachable = {}
    BY RequestLineAssumption
  <1>7. /\ name \in Unreachable => outcome = "unreachable"
        /\ name \notin Regular \cup Unreachable => outcome = "missing"
        /\ name \in Regular => outcome = CASE type = "static" -> "static"
                                           [] type = "cgi" -> "dynamic"
                                           [] type = "invalid" -> "denied"
    <2>1. outcome = Kind(name)
      BY <1>2, <1>4
    <2> HIDE DEF name
    <2> QED
      BY <1>6, <1>12, <2>1 DEF Kind
  <1> HIDE DEF type, static, cgi, name
  <1>13. CASE name \in Unreachable
    BY <1>7, <1>12, <1>13 DEF static, cgi, name
  <1>8. CASE name \notin Regular \cup Unreachable
    BY <1>7, <1>8 DEF static, cgi, name
  <1>9. CASE name \in Regular /\ static
    BY <1>6, <1>7, <1>12, <1>9 DEF static, cgi, name
  <1>10. CASE name \in Regular /\ ~static /\ cgi
    BY <1>6, <1>7, <1>12, <1>10 DEF static, cgi, name
  <1>11. CASE name \in Regular /\ ~static /\ ~cgi
    BY <1>6, <1>7, <1>12, <1>11 DEF static, cgi, name
  <1> QED
    BY <1>8, <1>9, <1>10, <1>11, <1>13

(* A request that is answered is answered by the file that its target names *)
(* before the first question mark, and the parts of the target give it back;*)
(* it ends the server instead if and only if exists() throws at that name   *)
(* (request.cpp:42-72, server.cpp:101-132).                                 *)
THEOREM FileAnswers == Spec => []AnsweredByFile
  <1>1. RequestInv => AnsweredByFile
    <2> SUFFICES ASSUME RequestInv, Answered \/ outcome = "unreachable", IsRequest
                 PROVE  AnsweredByFile
      BY DEF AnsweredByFile
    <2> DEFINE S == STRING
               delim == Find(memory, 2, request, "?")
               t == SubSeq(line, 2, request - 1)
    <2>1. PICK u \in Targets : Target(u)
      BY DEF IsRequest
    <2> DEFINE sp == Len(u) + 2
    <2>2. Placed /\ SpaceAt(sp)
      BY <2>1, TargetHasSpace DEF RequestInv
    <2> HIDE DEF sp
    <2>3. outcome \in Found
      <3>1. outcome # "malformed"
        BY <2>2, ScanMeetsSpace
      <3>2. outcome \in {"parsing", "malformed", "fault", "parsed"} \cup Found
        BY DEF RequestInv, Cut
      <3> QED
        BY <3>1, <3>2 DEF Answered, Found
    <2>4. /\ 0 < request /\ memory[request] = "SP"
          /\ path = Part(memory, 2, delim) /\ query = QueryPart(delim, request)
      BY <2>3 DEF RequestInv, Cut
    <2>5. request = sp
      BY <2>2, <2>4, ScanMeetsSpace
    <2>6. /\ SpaceAt(request) /\ request \in Nat /\ 2 <= request /\ request < Len(line)
          /\ memory \in Seq(S) /\ line \in Seq(S)
          /\ Len(line) \in Nat /\ Len(memory) \in Nat /\ Len(line) < Len(memory)
          /\ \A i \in 1..Len(line) : line[i] # "NUL" /\ memory[i] = line[i]
      BY <2>2, <2>5 DEF SpaceAt, Placed
    <2>7. t \in Targets /\ Target(t)
      BY <2>2, <2>6, SpaceHasTarget
    <2>8. t = SubSeq(memory, 2, request - 1)
      <3> DEFINE v == SubSeq(memory, 2, request - 1)
      <3> HIDE DEF S
      <3>1. /\ t \in Seq(S) /\ Len(t) = request - 2 /\ v \in Seq(S) /\ Len(v) = request - 2
        BY <2>6
      <3>2. \A i \in 1..(request - 2) : t[i] = line[i + 1] /\ v[i] = memory[i + 1]
        BY <2>6
      <3> HIDE DEF t, v
      <3>3. \A i \in 1..Len(t) : t[i] = v[i]
        BY <2>6, <3>1, <3>2
      <3>4. t = v
        BY <3>1, <3>3, SeqEqual
      <3> QED
        BY <3>4 DEF v
    <2>9. /\ delim \in 2..request /\ (delim = request \/ memory[delim] = "?")
          /\ \A i \in 2..(delim - 1) : memory[i] # "?"
      <3>1. 2 \in Nat
        OBVIOUS
      <3>2. LET i == Find(memory, 2, request, "?")
            IN  /\ i \in Nat /\ 2 <= i /\ i <= request
                /\ i = request \/ memory[i] = "?"
                /\ \A j \in 2..(i - 1) : memory[j] # "?"
        BY <2>6, <3>1, FindFacts
      <3> HIDE DEF delim
      <3> QED
        BY <2>6, <3>2 DEF delim
    <2> HIDE DEF delim, S, t
    <2>10. memory \in Seq(S) /\ request \in Nat /\ 2 <= request /\ request <= Len(memory)
      BY <2>6
    <2>11. Parted(memory, request, delim)
      BY <2>9, <2>10, TargetParts
    <2>12. /\ path \in Seq(S)
           /\ \A i \in 1..Len(path) : path[i] # "?" /\ path[i] = memory[i + 1] /\ i + 1 < request
           /\ delim = request => t = path \o <<>> /\ \A i \in DOMAIN t : t[i] # "?"
      BY <2>4, <2>8, <2>11 DEF Parted, RequestInv, Cut, S
    <2>13. delim # request => /\ t = path \o <<"?">> \o Part(memory, delim + 1, request)
                              /\ \E i \in DOMAIN t : t[i] = "?"
      BY <2>4, <2>8, <2>11 DEF Parted
    <2>14. t = path \o (IF "?" \in {t[i] : i \in DOMAIN t} THEN <<"?">> \o query ELSE <<>>)
      <3>1. CASE delim = request
        BY <2>12, <3>1
      <3>2. CASE delim # request
        <4> DEFINE q == "?"
        <4>1. query = Part(memory, delim + 1, request) /\ memory[delim] = q
          BY <2>4, <2>9, <3>2 DEF QueryPart
        <4>2. delim \in 1..Len(memory) /\ delim + 1 \in Nat /\ delim + 1 <= request /\ request <= Len(memory) + 1 /\ 1 <= delim + 1
          BY <2>6, <2>9, <3>2
        <4>3. q \in S
          <5> HIDE DEF q
          <5> QED
            BY <2>6, <4>1, <4>2
        <4>4. query \in Seq(S)
          BY <2>6, <4>1, <4>2, PartFacts
        <4>5. path \o <<q>> \o query = path \o (<<q>> \o query)
          <5> HIDE DEF q
          <5> QED
            BY <2>12, <4>3, <4>4, Regroup
        <4>6. "?" \in {t[i] : i \in DOMAIN t}
          BY <2>13, <3>2
        <4> QED
          BY <2>13, <3>2, <4>1, <4>5, <4>6
      <3> QED
        BY <3>1, <3>2
    <2>15. "?" \notin {path[i] : i \in DOMAIN path} /\ "NUL" \notin {path[i] : i \in DOMAIN path}
      <3>1. ASSUME NEW i \in 1..Len(path) PROVE path[i] # "?" /\ path[i] # "NUL"
        <4>1. i + 1 \in 1..Len(line)
          BY <2>6, <2>12
        <4> QED
          BY <2>6, <2>12, <4>1
      <3>2. DOMAIN path = 1..Len(path)
        BY <2>12
      <3> QED
        BY <3>1, <3>2
    <2>16. LET name    == Join(Directory, path)
               regular == name \in Regular
               static  == EndsIn(path, Words(ini.static))
           IN  /\ outcome = "unreachable" <=> name \in Unreachable
               /\ outcome = "missing" <=> name \notin Regular \cup Unreachable
               /\ outcome = "static" <=> regular /\ static
               /\ outcome = "dynamic" <=> regular /\ EndsIn(path, Words(ini.cgi)) /\ ~static
      BY <2>3, <2>15, AnsweredByEnding
    <2> QED
      BY <2>7, <2>14, <2>15, <2>16 DEF AnsweredByFile
  <1> QED
    BY <1>1, RequestAlways, PTL
=============================================================================
