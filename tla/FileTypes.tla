------------------------------ MODULE FileTypes ------------------------------
(* Config::get_file_type: what a file is, by the end of its name.           *)
EXTENDS Text

(* Mutant: the first dot is taken.                                          *)
ExtensionFirst(name) ==
  LET dot == Find(name, 1, End(name), ".")
  IN  IF dot = End(name) THEN name ELSE Part(name, dot + 1, End(name))

(* The reverse search; a name without a dot is its own extension.           *)
Extension(name) == Part(name, FindAfterLast(name, "."), End(name))

(* static_files come first; INVALID without a dot.                          *)
FileType(name, static_files, cgi_files) ==
  IF FindAfterLast(name, ".") = 1 THEN "invalid"
  ELSE IF Extension(name) \in static_files THEN "static"
  ELSE IF Extension(name) \in cgi_files THEN "cgi"
  ELSE "invalid"
=============================================================================
