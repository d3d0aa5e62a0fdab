------------------------------ MODULE Credentials ------------------------------
(***************************************************************************)
(* The life of the process (main and loadKeys, cmd/arca/main.go): where    *)
(* the keys come from when it starts, and what it has shown of them.       *)
(*                                                                         *)
(* The keys are those of the variables, or those of credentials.json in    *)
(* the directory of the data, which is written when there is none: opened  *)
(* first, which leaves it empty, then filled.  What is there can be read.  *)
(* It is the keys that a client knows, from the variables or from what was *)
(* printed, that must go on working.                                       *)
(***************************************************************************)
EXTENDS Naturals

CONSTANTS
    Key,       \* pairs of an access key and its secret
    MaxStarts, \* bound: how often the process is started
    Broken,    \* credentials.json with no keys in it, or half of it
    Unset      \* stands for a variable without a value, and for no keys

NoVariables == [access |-> Unset, secret |-> Unset]
Variables(k) == [access |-> k.access, secret |-> k.secret]
Settings == [access : {Unset} \cup {k.access : k \in Key},
             secret : {Unset} \cup {k.secret : k \in Key}]

ASSUME KeyAssumption ==
    /\ \A k \in Key : k = [access |-> k.access, secret |-> k.secret]
    /\ \A k \in Key : Unset \notin {k.access, k.secret}
    /\ {Broken, Unset} \cap Key = {}
ASSUME StartsAssumption == MaxStarts \in Nat

VARIABLES
    proc,   \* where the process is: "down", "new", "opened", "written", "up"
    setting, \* the variables it was started with
    keys,   \* the keys that requests are verified with
    file,   \* credentials.json
    known,  \* history: the keys that were printed with their secret
    failed, \* the last start ended with an error
    starts  \* how often it was started

credentials == <<proc, setting, keys, file, known, failed, starts>>

CredentialsInit ==
    /\ proc = "down" /\ setting = NoVariables /\ keys = Unset /\ file = Unset
    /\ known = {} /\ failed = FALSE /\ starts = 0

Fail == proc' = "down" /\ failed' = TRUE /\ UNCHANGED <<keys, file, known>>

Ready(k) == proc' = "up" /\ keys' = k /\ failed' = FALSE /\ UNCHANGED <<file, known>>

Renew == proc' = "new" /\ failed' = FALSE /\ UNCHANGED <<keys, file, known>>

(* loadKeys up to the keys, an error, or the decision to make new keys. *)
Load(set) ==
    IF set # NoVariables
    THEN IF Unset \in {set.access, set.secret} THEN Fail ELSE Ready(set)
    ELSE IF file = Unset THEN Renew
    ELSE IF file = Broken THEN Fail
    ELSE Ready(file)

Start(set) ==
    /\ proc = "down" /\ starts < MaxStarts
    /\ starts' = starts + 1
    /\ setting' = set
    /\ Load(set)

(* os.WriteFile of new keys, which opens the file and may fail from then on. *)
OpenFile ==
    /\ proc = "new"
    /\ \/ proc' = "opened" /\ file' = Broken /\ UNCHANGED failed
       \/ proc' = "down" /\ failed' = TRUE /\ UNCHANGED file
    /\ UNCHANGED <<setting, keys, known, starts>>

(* (The first operator is a mistake, not part of the model: the keys are      *)
(* printed before they are in the file.)                                     *)
PrintFirst ==
    /\ proc = "opened"
    /\ proc' = "up"
    /\ \E k \in Key : known' = known \cup {k} /\ keys' = k
    /\ UNCHANGED <<setting, file, failed, starts>>

FillFile ==
    /\ proc = "opened"
    /\ \/ \E k \in Key :
            /\ file' = k /\ keys' = k
            /\ proc' = "written" /\ UNCHANGED failed
       \/ proc' = "down" /\ failed' = TRUE /\ UNCHANGED <<file, keys>>
    /\ UNCHANGED <<setting, known, starts>>

(* They are printed once they are in the file. *)
PrintKeys ==
    /\ proc = "written"
    /\ proc' = "up"
    /\ known' = known \cup {keys}
    /\ UNCHANGED <<setting, keys, file, failed, starts>>

(* The process ends, at any time: killed, or on a signal. *)
Kill ==
    /\ proc # "down"
    /\ proc' = "down" /\ keys' = Unset /\ failed' = FALSE
    /\ UNCHANGED <<setting, file, known, starts>>

StartUp == OpenFile \/ FillFile \/ PrintKeys
===============================================================================
