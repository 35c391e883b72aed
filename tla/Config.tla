-------------------------------- MODULE Config --------------------------------
(****************************************************************************)
(* The constructor of Config, a turn of its loops per step, and what the    *)
(* reactor asks it: the type of a file and the content type to announce.    *)
(* RequestLine goes on from a configuration that is ready.                  *)
(****************************************************************************)
EXTENDS FileTypes

CONSTANTS
  Inis,   \* configuration files
  Names   \* file names, as sequences of characters, that requests resolve to

(* A file as read_ini returns it: the two lists of types, or that one is    *)
(* missing, and the keys of [static].  Lists and keys are trimmed, so that  *)
(* a list has no space at its ends, but it may be empty; no key is empty.   *)
Missing == <<"missing">>

ASSUME ConfigAssumption ==
  /\ \A ini \in Inis : /\ DOMAIN ini = {"static", "cgi", "keys"}
                       /\ ini.static \in Seq(STRING) /\ ini.cgi \in Seq(STRING)
                       /\ ini.keys \subseteq Seq(STRING) \ {<<>>}
  /\ Names \subseteq Seq(STRING)

VARIABLES
  ini,           \* the file
  phase,         \* which loop of the constructor runs, or how it ended
  begin,         \* where load_files is in its list
  static_files, cgi_files, return_types  \* the members

configVars == <<ini, phase, begin, static_files, cgi_files, return_types>>

ConfigInit ==
  /\ ini \in Inis
  /\ phase = "static" /\ begin = 1
  /\ static_files = {} /\ cgi_files = {} /\ return_types = {}

(* tree.get throws when the list is missing.                                *)
Throw ==
  /\ \/ phase = "static" /\ ini.static = Missing
     \/ phase = "cgi" /\ ini.cgi = Missing
  /\ phase' = "thrown"
  /\ UNCHANGED <<ini, begin, static_files, cgi_files, return_types>>

(* Mutant: the separator is not stepped over.                               *)
AfterStays(sep) == sep

After(sep) == sep + 1

(* One turn of load_files on list, which adds a word; the next phase comes  *)
(* when the list is used up.                                                *)
LoadWord(list, files, next) ==
  LET sep == Find(list, begin, End(list), "SP")
  IN  /\ list # Missing
      /\ files' = files \cup {Part(list, begin, sep)}
      /\ IF After(sep) < End(list) THEN begin' = After(sep) /\ phase' = phase
         ELSE begin' = 1 /\ phase' = next
      /\ UNCHANGED <<ini, return_types>>

LoadStatic ==
  phase = "static" /\ LoadWord(ini.static, static_files, "cgi") /\ UNCHANGED cgi_files

LoadCgi ==
  phase = "cgi" /\ LoadWord(ini.cgi, cgi_files, "types") /\ UNCHANGED static_files

(* Mutant: every type of the file gets a content type.                      *)
ReturnTypeCgi ==
  /\ phase = "types"
  /\ phase' = "ready" /\ return_types' = static_files \cup cgi_files
  /\ UNCHANGED <<ini, begin, static_files, cgi_files>>

(* tree.get("static." + type) takes every dot as the end of a section's     *)
(* name, but for one at the end of the path.  The keys are leaves, so that  *)
(* a type with a dot inside finds none, and an empty one the section.       *)
HasKey(type) ==
  LET key == IF type # <<>> /\ type[Len(type)] = "." THEN Part(type, 1, Len(type))
             ELSE type
  IN  type = <<>> \/ (key \in ini.keys /\ \A i \in DOMAIN key : key[i] # ".")

(* The loop over static_files: each needs its key.  The order of the set    *)
(* does not matter.                                                         *)
ReturnType ==
  /\ phase = "types"
  /\ \/ /\ static_files \subseteq return_types
        /\ phase' = "ready" /\ UNCHANGED return_types
     \/ \E type \in static_files \ return_types :
          IF HasKey(type)
          THEN return_types' = return_types \cup {type} /\ UNCHANGED phase
          ELSE phase' = "thrown" /\ UNCHANGED return_types
  /\ UNCHANGED <<ini, begin, static_files, cgi_files>>

Configure == Throw \/ LoadStatic \/ LoadCgi \/ ReturnType

-----------------------------------------------------------------------------
(* get_result_type: the configured one, or DEFAULT_TYPE.                    *)
Announced(type) == IF type \in return_types THEN type ELSE <<"text/plain">>

-----------------------------------------------------------------------------
(* Reference: the words between the spaces of a list.                       *)
Words(list) ==
  IF list = <<>> THEN {<<>>}
  ELSE {Part(list, w.begin, w.end) : w \in
          {w \in [begin : 1..Len(list), end : 1..End(list)] :
             /\ w.begin <= w.end
             /\ w.begin = 1 \/ list[w.begin - 1] = "SP"
             /\ w.end = End(list) \/ list[w.end] = "SP"
             /\ \A k \in w.begin..(w.end - 1) : list[k] # "SP"}}

(* The members hold words; the loops are where they can be.                 *)
ConfigTypeOK ==
  /\ ini \in Inis
  /\ phase \in {"static", "cgi", "types", "ready", "thrown"}
  /\ begin \in Nat \ {0}
  /\ static_files \subseteq Seq(STRING) /\ cgi_files \subseteq Seq(STRING)
  /\ return_types \subseteq static_files

(* A listed word whose content type can be found: a key without dots, which *)
(* may have one more dot in the list, or nothing (two spaces).              *)
Findable(word) ==
  word = <<>> \/ \E key \in ini.keys : /\ \A i \in DOMAIN key : key[i] # "."
                                      /\ word \in {key, key \o <<".">>}

(* A server that starts knows exactly the types of its lists and can        *)
(* announce every static one (config.cpp:21-26); a configuration is refused *)
(* only if a list is missing or a listed word's content type is not found:  *)
(* it has no key, or a dot that takes the lookup elsewhere ("tar.gz" is     *)
(* refused, with its key or without, config.cpp:24).                        *)
LoadedExactly ==
  /\ phase = "ready" =>
       /\ static_files = Words(ini.static) /\ cgi_files = Words(ini.cgi)
       /\ return_types = static_files
       /\ \A word \in static_files : Findable(word)
  /\ phase = "thrown" =>
       \/ Missing \in {ini.static, ini.cgi}
       \/ \E word \in Words(ini.static) : ~Findable(word)

(* A name that ends with a dot and one of the words; a word that has a dot  *)
(* itself is no name's ending.                                              *)
EndsIn(name, words) ==
  \E word \in words :
    /\ "." \notin {word[i] : i \in DOMAIN word}
    /\ \E i \in 1..Len(name) : name = SubSeq(name, 1, i - 1) \o <<".">> \o word

(* A file is served as static if and only if its name ends with a dot and a *)
(* listed word, and then with that word's content type; another file runs   *)
(* as a program if and only if it ends so with a word of the other list.    *)
TypedByEnding ==
  phase = "ready" =>
    \A name \in Names :
      LET type   == FileType(name, static_files, cgi_files)
          static == EndsIn(name, Words(ini.static))
      IN  /\ type = "static" <=> static
          /\ type = "cgi" <=> EndsIn(name, Words(ini.cgi)) /\ ~static
          /\ type = "static" => Announced(Extension(name)) = Extension(name)

(* The constructor ends, also for an empty list and with double spaces.     *)
Settles == <>(phase \in {"ready", "thrown"})
=============================================================================
