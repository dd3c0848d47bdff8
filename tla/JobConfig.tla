------------------------------ MODULE JobConfig ------------------------------
(***************************************************************************)
(* config/loader.rs and validate.rs: what is on disk becomes a set of jobs *)
(* or an error; cli/check.rs: `spyweb check config` over the same files;   *)
(* and how the extractor, the keyword filter and the hash of a record use  *)
(* what was validated.                                                     *)
(*                                                                         *)
(* A text is a word with or without blanks around it; Blank is the empty   *)
(* word.  Whether two words differ in case only is left out.               *)
(***************************************************************************)
EXTENDS Naturals

CONSTANTS
    Tomls,       \* what jobs.toml may be: [at, jobs], at missing, bad or read
    Dirs,        \* what jobs/*/config.toml may be: [bad, jobs]
    IdOf,        \* normalize_job_id: job name -> id
    Blank,
    None

\* A text is a word with or without blanks around it.
IsText(t) == t = [word |-> t.word, padded |-> t.padded] /\ t.padded \in BOOLEAN

\* A directory without any of the files.
NoToml == [at |-> "missing", jobs |-> {}]
NoDirs == [bad |-> FALSE, jobs |-> {}]

FileAssumption ==
    /\ NoToml \in Tomls /\ NoDirs \in Dirs
    /\ \A file \in Tomls \cup Dirs : \A c \in file.jobs :
           /\ \A f \in c.fields : IsText(f.name)
           /\ c.search # None => \A t \in c.search : IsText(t)

VARIABLES
    toml,        \* jobs.toml
    dirs,        \* the files jobs/*/config.toml, bad if one cannot be parsed
    lua,         \* the Lua files (hooks, tests, server/init.lua) parse
    checked,     \* exit code of check config on these files, or None
    tried,       \* load_all_jobs on these files: "ok", "error" or None
    jobs         \* the jobs of the last load that succeeded

vars == <<toml, dirs, lua, checked, tried, jobs>>

Trim(t) == [t EXCEPT !.padded = FALSE]

Named(t) == t.word # Blank

\* normalized_search_fields, normalized_hash_fields; a list is None or a set.
Normalized(list) ==
    IF list = None THEN {} ELSE {Trim(t) : t \in {u \in list : Named(u)}}

\* A shorthand field is "name", "name:" or "name:selector".
ShortFieldValid(f) == Named(f.name) /\ f.rest # "colon"

FieldValid(f) == IF f.short THEN ShortFieldValid(f) ELSE Named(f.name) /\ f.rest = "selector"

ValidNames(c) == {Trim(f.name) : f \in c.fields}

Distinct(S, Of(_)) == \A x, y \in S : Of(x) = Of(y) => x = y

\* Mutant: hash_fields are not looked up among the fields.
KnownSearchOnly(c) == Normalized(c.search) \subseteq ValidNames(c)

Known(c) ==
    /\ Normalized(c.search) \subseteq ValidNames(c)
    /\ Normalized(c.hash) \subseteq ValidNames(c)

\* validate_job_config; c.scalars says that name, urls, selector, interval,
\* workers, webhook and proxies are as they must be.
Valid(c) ==
    /\ c.scalars
    /\ c.fields # {} /\ \A f \in c.fields : FieldValid(f)
    /\ Distinct(c.fields, LAMBDA f : Trim(f.name))
    /\ Known(c)

\* validate_job_set
ValidSet(S) ==
    /\ Distinct(S, LAMBDA c : c.name)
    /\ Distinct(S, LAMBDA c : IdOf[c.name])

Configs == toml.jobs \cup dirs.jobs

Init ==
    /\ toml = NoToml /\ dirs = NoDirs /\ lua = TRUE
    /\ checked = None /\ tried = None /\ jobs = {}

\* One file is saved at a time.
Save(t, d, l) ==
    /\ toml' = t /\ dirs' = d /\ lua' = l
    /\ checked' = None /\ tried' = None
    /\ UNCHANGED jobs

\* load_all_jobs; hooks that do not load leave the job without hooks.
LoadAll ==
    /\ toml.at # "bad" /\ ~dirs.bad
    /\ \A c \in Configs : Valid(c)
    /\ ValidSet(Configs)

Load ==
    /\ tried = None
    /\ \/ LoadAll /\ tried' = "ok" /\ jobs' = Configs
       \/ ~LoadAll /\ tried' = "error" /\ UNCHANGED jobs
    /\ UNCHANGED <<toml, dirs, lua, checked>>

\* config_check: a jobs.toml that cannot be read or parsed ends it with Ok.
Check ==
    /\ checked = None
    /\ checked' = IF toml.at # "bad" /\ (dirs.bad \/ ~lua) THEN 1 ELSE 0
    /\ UNCHANGED <<toml, dirs, lua, tried, jobs>>

Next ==
    \/ \E t \in Tomls : Save(t, dirs, lua)
    \/ \E d \in Dirs : Save(toml, d, lua)
    \/ Save(toml, dirs, ~lua)
    \/ Load \/ Check

Spec == Init /\ [][Next]_vars

-----------------------------------------------------------------------------
(***************************************************************************)
(* A cycle's use of a config.                                              *)
(***************************************************************************)
\* compile_fields: a shorthand field must have a colon.
Compiles(c) == \A f \in c.fields : f.short => f.rest # "none"

\* The keys of an extracted item: shorthand names are trimmed, full ones not.
ItemKeys(c) == {IF f.short THEN Trim(f.name) ELSE f.name : f \in c.fields}

\* matching_keywords looks for the names as they are written.
Searched(c) == IF c.search = None THEN ItemKeys(c) ELSE c.search \cap ItemKeys(c)

\* hash_fields of an item: the pairs that are hashed.
Empty(item, t) == t \notin DOMAIN item \/ item[t] = Blank

HashPairs(c, item) ==
    LET names == Normalized(c.hash)
    IN  IF \A t \in names : Empty(item, t)
          THEN {<<t, item[t]>> : t \in DOMAIN item}
          ELSE {<<t, IF t \in DOMAIN item THEN item[t] ELSE Blank>> : t \in names}

TypeOK ==
    /\ toml \in Tomls /\ dirs \in Dirs /\ lua \in BOOLEAN
    /\ checked \in {0, 1, None} /\ tried \in {"ok", "error", None}

\* No name has blanks around it.
Plain(c) ==
    /\ \A f \in c.fields : ~f.name.padded
    /\ c.search # None => \A t \in c.search : ~t.padded

(***************************************************************************)
(* Of the jobs that run no two share an id, which prefixes their keys and  *)
(* records; the keyword filter searches all fields that search_fields      *)
(* names; and two items are the same record exactly when they agree on     *)
(* what hash_fields names, unless all of that is empty.  This relates the  *)
(* names as validated to the names as extracted.  It needs names without   *)
(* blanks around them: validation trims those of full fields and of        *)
(* search_fields, their use does not.                                      *)
(***************************************************************************)
JobsAreTold ==
    /\ \A c, d \in jobs : IdOf[c.name] = IdOf[d.name] => c = d
    /\ \A c \in {d \in jobs : Plain(d)} :
           /\ Normalized(c.search) \subseteq Searched(c)
           /\ \A i, k \in [ItemKeys(c) -> {Blank, "x", "y"}] :
                  (\E t \in Normalized(c.hash) : ~Empty(i, t)) =>
                      ( HashPairs(c, i) = HashPairs(c, k)
                        <=> \A t \in Normalized(c.hash) :
                                t \in ItemKeys(c) /\ i[t] = k[t] )

(***************************************************************************)
(* check.rs:11 says of `spyweb check config` that it exits 1 on errors:    *)
(* what it accepts can be loaded.                                          *)
(***************************************************************************)
CheckedLoads == checked = 0 => tried # "error"
=============================================================================
