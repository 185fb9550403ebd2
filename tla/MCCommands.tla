------------------------------ MODULE MCCommands ------------------------------
(* What a person types and what a call asks of the machine, checked in one *)
(* run: the sign-ins and their stores (SignIn), one interactive sign-in    *)
(* (InteractiveLogin), the list of clusters (ClusterList), what the        *)
(* machine says it offers (ModelDiscovery), a read of a file (FileRead), a *)
(* command of the shell (ExecCall), a step of a pipeline (StepFiles).  A   *)
(* behaviour is of one of them, which Start chooses; SignIn and            *)
(* ClusterList stand still in those of the others, and the variables of    *)
(* any other part are Absent.  FileRead has its name, owner and touches in *)
(* those of ExecCall.  Nothing here has to happen: no fairness is assumed. *)
EXTENDS ClusterList, SignIn, ExecCall, Sequences, TLC

CONSTANT Absent

VARIABLES subject,                                                   \* the part in play
          flow, now, device, idp, polls, port,                       \* InteractiveLogin
          setting, ollama, served, probe, inventory, before, told, quiet, probes, changes,  \* ModelDiscovery
          file, call, result,                                        \* FileRead
          stage, deadline, reply,                                    \* StepFiles
          req, policy, limit, git, tree, exit, left, found, missing, archive, big,
          sent, steady, base, strays                                 \* StepFiles

-----------------------------------------------------------------------------
(* The bounds of the parts                                                 *)

(* The commands of a person are alike, and no property here is of what     *)
(* must happen.                                                            *)
Alike == Permutations(Commands)

(* Ollama: models that say what they can, one without its sizes, one of    *)
(* experts, one that makes images.                                         *)
Dense(can, n) ==
  [can |-> can, listed |-> n, total |-> n, experts |-> 0, used |-> 0, tensors |-> <<[count |-> n, of |-> 0]>>]
Builds ==
  { Dense({"completion", "tools", "vision"}, 2), Dense({"tools", "embedding"}, 1),
    [can |-> {"completion"}, listed |-> 0, total |-> 10, experts |-> 4, used |-> 1,
     tensors |-> <<[count |-> 2, of |-> 0], [count |-> 8, of |-> 4]>>],
    [can |-> {"completion", "image"}, listed |-> 3, total |-> 10, experts |-> 4, used |-> 1,
     tensors |-> <<[count |-> 8, of |-> 4]>>] }

(* Nothing declared; two servers that offer one id; a server of another    *)
(* protocol, and one that is none.                                         *)
Declared(id, claims, n) == [id |-> id, claims |-> claims, max |-> n, params |-> 0]
Declarations ==
  { <<>>,
    << [name |-> 2, protocol |-> "chat", models |-> {Declared("a", {"structured"}, 0)}],
       [name |-> 1, protocol |-> "chat", models |-> {Declared("a", {"tools"}, 2)}] >>,
    << [name |-> 1, protocol |-> "whisper", models |-> {Declared("b", {"audioin"}, 1)}],
       [name |-> 2, protocol |-> "odd", models |-> {Declared("b", {"tools"}, 2)}] >> }

(* On both sides of the floor, and what could not be told.                 *)
Machine(os, chip, memory, major, nvidia, amd) ==
  [os |-> os, chip |-> chip, memory |-> memory, major |-> major, nvidia |-> nvidia, amd |-> amd]
Machines ==
  { Machine("darwin", "apple", 2, 2, {}, {}),
    Machine("linux", "amd64", 2, 0, {-1}, {}), Machine("linux", "amd64", 2, 0, {-1}, {1, 3}) }

(* Files of short and long lines, the last of which may still be open.     *)
Line(n, hit) == [len |-> n, hit |-> hit]
Files ==
  [lines : { <<>>, <<Line(2, TRUE)>>, <<Line(2, FALSE), Line(1, TRUE)>>,
             <<Line(2, FALSE), Line(1, TRUE), Line(2, TRUE)>>, <<Line(1, TRUE), Line(2, TRUE), Line(2, FALSE)>> },
   open : {TRUE}]
  \cup {[lines |-> <<Line(2, FALSE), Line(1, TRUE), Line(2, TRUE)>>, open |-> FALSE]}

(* The limits of a read cut a line, end with one, or leave room.           *)
Read(mode, offset, start, count, max, scan, matches) ==
  [mode |-> mode, offset |-> offset, start |-> start, count |-> count, max |-> max, scan |-> scan, matches |-> matches]
Readings ==
  {Read("bytes", o, 1, 1, n, 9, 1) : o \in {0, 2, 6}, n \in {1, 3, 5}}
  \cup {Read("lines", 0, s, c, n, b, 1) : s \in {1, 3, 4}, c \in {1, 2}, n \in {1, 3, 5}, b \in {3, 4, 9}}
  \cup {Read("search", 0, 1, 1, n, b, k) : n \in {1, 3, 5}, b \in {3, 4, 9}, k \in {1, 3}}

(* Steps that are refused for each reason there is, and one that asks for  *)
(* two files, one of them twice, and a link.                               *)
Asked(agent, repository, names, scheme, clash, wants, declared) ==
  [agent |-> agent, repository |-> repository, names |-> names, scheme |-> scheme, clash |-> clash,
   wants |-> wants, declared |-> declared]
Steps ==
  { Asked(TRUE, "o", "o", "https", FALSE, 0, <<>>), Asked(FALSE, "-", "-", "https", FALSE, 1, <<>>),
    Asked(FALSE, "o", "p", "https", FALSE, 1, <<>>), Asked(FALSE, "o", "o", "ssh", FALSE, 1, <<>>),
    Asked(FALSE, "o", "o", "https", TRUE, 1, <<>>), Asked(FALSE, "o", "o", "https", FALSE, 0, <<>>),
    Asked(FALSE, "o", "o", "https", FALSE, 9, <<{"x", "y"}, {"y"}, {"l"}>>) }
Owners ==
  { [allow |-> TRUE, repos |-> {"o"}, ceiling |-> 2], [allow |-> TRUE, repos |-> {}, ceiling |-> 0],
    [allow |-> FALSE, repos |-> {}, ceiling |-> 0] }
Node(kind, size, text) == [kind |-> kind, size |-> size, text |-> text]
Trees ==
  { [x |-> Node("file", 1, 1), y |-> Node("file", 2, 1), l |-> Node("link", 1, 1)],
    [x |-> Node("file", 1, 2), y |-> Node("file", 1, 1)],
    [y |-> Node("outside", 1, 1), l |-> Node("file", 1, 1)],
    [x |-> Node("file", 5, 1)],
    [x |-> Node("file", 1, 1), y |-> Node("file", 1, 1), l |-> Node("file", 1, 2)] }

-----------------------------------------------------------------------------
(* The parts                                                               *)

Login == INSTANCE InteractiveLogin WITH
  Intervals <- {0, 1, 2, 4}, Window <- 4, Slack <- 3, Unnamed <- 2, Late <- 3, Patience <- 2,
  MaxLost <- 1, MaxCalls <- 2

Offer == INSTANCE ModelDiscovery WITH
  Ids <- {"a", "b"}, Policies <- Declarations, MacMemory <- 2, MacMajor <- 2, Vram <- 2,
  Unknown <- -1, MaxProbes <- 2, MaxChanges <- 1

Reading == INSTANCE FileRead WITH Requests <- Readings, MaxTouches <- 1

Made == INSTANCE StepFiles WITH
  at <- stage, ctx <- deadline, answer <- reply,
  Requests <- Steps, Policies <- Owners, MaxFiles <- 2, MaxBytes <- 4, Wire <- 5, Piece <- 2,
  Default <- 3, Ceiling <- 5, MaxStray <- 1

ASSUME Bounds ==
  /\ SignInAssumption /\ Login!LoginAssumption /\ ClusterListAssumption
  /\ Offer!DiscoveryAssumption /\ Reading!FileReadAssumption /\ ExecCallAssumption
  /\ Made!StepFilesAssumption

login_vars == <<flow, now, device, idp, polls, port>>
offer_vars == <<setting, ollama, served, probe, inventory, before, told, quiet, probes, changes>>
people_vars == <<signin_vars, login_vars, list_vars>>
read_vars == <<file, call, result>>
command_vars == <<lane, at, context, held, procs, cwd, wrote, readout, watching, early, answer>>
step_vars == <<stage, deadline, reply, req, policy, limit, git, tree, exit, left, found, missing, archive, big, sent, steady, base, strays>>
tool_vars == <<read_vars, exec_vars, step_vars>>
everything == <<subject, people_vars, offer_vars, tool_vars>>

NoSign == SignInInit /\ mints = 0
NoLogin == flow = Absent /\ now = Absent /\ device = Absent /\ idp = Absent /\ polls = Absent /\ port = Absent
NoOffer ==
  /\ setting = Absent /\ ollama = Absent /\ served = Absent /\ probe = Absent /\ inventory = Absent
  /\ before = Absent /\ told = Absent /\ quiet = Absent /\ probes = Absent /\ changes = Absent
NoRead == file = Absent /\ call = Absent /\ result = Absent
NoPath == name = Absent /\ owner = Absent /\ touches = Absent
NoExec ==
  /\ lane = Absent /\ held = Absent /\ procs = Absent /\ cwd = Absent /\ wrote = Absent
  /\ readout = Absent /\ watching = Absent /\ early = Absent
  /\ at = Absent /\ context = Absent /\ answer = Absent
NoStep ==
  /\ stage = Absent /\ deadline = Absent /\ reply = Absent /\ req = Absent /\ policy = Absent /\ limit = Absent /\ git = Absent /\ tree = Absent /\ exit = Absent
  /\ left = Absent /\ found = Absent /\ missing = Absent /\ archive = Absent /\ big = Absent
  /\ sent = Absent /\ steady = Absent /\ base = Absent /\ strays = Absent
NoPeople == NoSign /\ NoLogin /\ Init
NoTools == NoRead /\ NoPath /\ NoExec /\ NoStep

Start ==
  \/ subject = "sign-in" /\ SignInInit /\ NoLogin /\ Init /\ NoOffer /\ NoTools
  \/ subject = "login" /\ Login!Init /\ NoSign /\ Init /\ NoOffer /\ NoTools
  \/ subject = "list" /\ Init /\ NoSign /\ NoLogin /\ NoOffer /\ NoTools
  \/ subject = "offer" /\ Offer!Init /\ NoPeople /\ NoTools
  \/ subject = "read" /\ Reading!Init /\ NoPeople /\ NoOffer /\ NoExec /\ NoStep
  \/ subject = "exec" /\ ExecInit /\ NoPeople /\ NoOffer /\ NoRead /\ NoStep
  \/ subject = "step" /\ Made!Init /\ NoPeople /\ NoOffer /\ NoRead /\ NoPath /\ NoExec

Step ==
  /\ UNCHANGED subject
  /\ \/ subject = "sign-in" /\ SignInNext /\ UNCHANGED <<login_vars, list_vars, offer_vars, tool_vars>>
     \/ subject = "login" /\ Login!Next /\ UNCHANGED <<signin_vars, list_vars, offer_vars, tool_vars>>
     \/ subject = "list" /\ Next /\ UNCHANGED <<signin_vars, login_vars, offer_vars, tool_vars>>
     \/ subject = "offer" /\ Offer!Next /\ UNCHANGED <<people_vars, tool_vars>>
     \/ subject = "read" /\ Reading!Next /\ UNCHANGED <<people_vars, offer_vars, command_vars, step_vars>>
     \/ subject = "exec" /\ ExecNext /\ UNCHANGED <<people_vars, offer_vars, read_vars, step_vars>>
     \/ subject = "step" /\ Made!Next /\ UNCHANGED <<people_vars, offer_vars, read_vars, exec_vars>>

Parts == Start /\ [][Step]_everything

-----------------------------------------------------------------------------
(* Properties: those of the parts (ClusterList, SignIn and ExecCall have   *)
(* theirs)                                                                 *)

(* Types of the parts.                                                     *)
PartsTypeOK ==
  /\ subject = "login" => Login!LoginTypeOK
  /\ subject = "sign-in" => SignInTypeOK
  /\ subject = "list" => ClusterListTypeOK
  /\ subject = "offer" => Offer!DiscoveryTypeOK
  /\ subject = "read" => Reading!FileReadTypeOK
  /\ subject = "exec" => ExecCallTypeOK
  /\ subject = "step" => Made!StepFilesTypeOK

(* InteractiveLogin: who approves in time is signed in, no code is given   *)
(* up early, no poll comes too soon, and only an answer to this sign-in    *)
(* decides it.  ModelDiscovery: what is advertised was said by a runtime   *)
(* or declared by the owner, and two discoveries of an unchanged machine   *)
(* tell the same.  FileRead, StepFiles: a call is told the bytes that are  *)
(* in the file and the files the step made, and nothing was opened or run  *)
(* that its owner had not let.  And the types of the parts.                *)
OutcomesAreEarned ==
  /\ PartsTypeOK
  /\ subject = "login" => /\ Login!FloorIsKept /\ Login!ApprovalIsHeard
                          /\ Login!NotGivenUpEarly /\ Login!OnlyMineDecides
  /\ subject = "offer" => Offer!ClaimsAreEarned /\ Offer!LabelsAreStable
  /\ subject = "read" => Reading!ReadsTellTheTruth
  /\ subject = "step" => Made!StepReturnsItsFiles
=============================================================================
