---------------------------- MODULE Configuration -----------------------------
(***************************************************************************)
(* LoadConfig, which the three services have word for word: up to three    *)
(* .env files fill in what the environment lacks, then every setting is    *)
(* read, and the process exits when one that is required is missing or is  *)
(* no number.  A variable that is not set and one that is set to nothing   *)
(* are the same to the code.  A file is the sequence of its assignments,   *)
(* lines that are none left out; a file that cannot be opened has none.    *)
(***************************************************************************)
EXTENDS Naturals, Sequences

CONSTANTS Variables, Values, Unset,
          Required,   \* variables that LoadConfig fails without
          Parsed,     \* of these, the ones that are parsed
          Unparsable, \* values that are not the number that is asked for
          Default,    \* the value a setting has without its variable
          Environments, Files  \* what the process may start with

ASSUME ConfigAssumption ==
  /\ Unset \notin Values
  /\ Required \subseteq Variables /\ Parsed \subseteq Required
  /\ Environments \subseteq [Variables -> Values \cup {Unset}]
  /\ Files \subseteq Seq(Seq([key : Variables, value : Values \cup {Unset}]))

VARIABLES boot,       \* dotenv, configured, failed
          env, files,
          fileAt, lineAt,
          inherited   \* history: the environment of the process as it was started

configVars == <<boot, env, files, fileAt, lineAt, inherited>>

ConfigInit ==
  /\ boot = "dotenv"
  /\ env \in Environments
  /\ files \in Files
  /\ fileAt = 1
  /\ lineAt = 1
  /\ inherited = env

\* Mutant: a file takes precedence over what is set.
SetenvOverwrites(key, value) == [env EXCEPT ![key] = value]

Setenv(key, value) == [env EXCEPT ![key] = IF @ = Unset THEN value ELSE @]

\* A line of loadDotEnv's scanner, or the end of a file.
LoadDotEnv ==
  /\ boot = "dotenv"
  /\ fileAt <= Len(files)
  /\ \/ /\ lineAt <= Len(files[fileAt])
        /\ env' = Setenv(files[fileAt][lineAt].key, files[fileAt][lineAt].value)
        /\ lineAt' = lineAt + 1
        /\ UNCHANGED fileAt
     \/ /\ lineAt > Len(files[fileAt])
        /\ fileAt' = fileAt + 1
        /\ lineAt' = 1
        /\ UNCHANGED env
  /\ UNCHANGED <<boot, files, inherited>>

\* Mutant: the error of a number is not looked at.
RefusedUnlessMissing == {v \in Required : env[v] = Unset}

Refused == {v \in Required : env[v] = Unset \/ (v \in Parsed /\ env[v] \in Unparsable)}

\* getRequiredEnv and getOptionalEnv.
Setting(v) == IF env[v] = Unset THEN Default[v] ELSE env[v]

\* The settings are all that is looked at from here on: they stand for the
\* environment, and the files are gone.
LoadConfig ==
  /\ boot = "dotenv"
  /\ fileAt > Len(files)
  /\ boot' = IF Refused = {} THEN "configured" ELSE "failed"
  /\ env' = [v \in Variables |-> Setting(v)]
  /\ files' = << >>
  /\ inherited' = env'
  /\ UNCHANGED <<fileAt, lineAt>>

-----------------------------------------------------------------------------
\* Where the files give v a value, as <<file, line>>.
Assignments(v) ==
  UNION {{f} \X {l \in DOMAIN files[f] : files[f][l].key = v /\ files[f][l].value # Unset}
           : f \in DOMAIN files}

Earlier(p, r) == p[1] < r[1] \/ (p[1] = r[1] /\ p[2] < r[2])

\* When the settings are read a variable has the value it was started with, or else
\* the first that a file gives it, whatever is assigned again or to nothing.
FirstAssignmentWins ==
  boot = "dotenv" /\ fileAt > Len(files) =>
    \A v \in Variables :
      /\ inherited[v] # Unset => env[v] = inherited[v]
      /\ inherited[v] = Unset /\ env[v] = Unset => Assignments(v) = {}
      /\ inherited[v] = Unset /\ env[v] # Unset =>
           \E p \in Assignments(v) : /\ env[v] = files[p[1]][p[2]].value
                                     /\ \A r \in Assignments(v) : ~Earlier(r, p)
=============================================================================
