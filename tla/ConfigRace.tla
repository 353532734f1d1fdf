----------------------------- MODULE ConfigRace -----------------------------
(***************************************************************************)
(* NANONET_IOC_SET_CONFIG (control_interface.c) copies the caller's        *)
(* struct ull_config straight over global_config with copy_from_user and   *)
(* takes no lock; nanonet_hook (nanonet.c) reads global_config one field   *)
(* at a time, at lines 73, 92, 93, 98, 99, 108, 109 and, in                *)
(* nanonet_process_application_logic, packet_processor.c:81.  Here the     *)
(* copy is one step per field, in the struct's layout order, and every     *)
(* read of the hook is a step of its own, so a hook can run between any    *)
(* two stores of the copy.                                                 *)
(*                                                                         *)
(* Only the fields the hook's decision reads are kept (response_ip,        *)
(* response_port and seq_num are read by the sender, see ResponsePath).    *)
(* The steps of the hook that do not read global_config (the device test,  *)
(* parsing, validation, the TCP tracker) are left out: every frame here    *)
(* has a device, parses, validates and, if TCP, is a SYN the tracker       *)
(* accepts; Pipeline models those steps.  SET_CONFIG runs on a CPU other   *)
(* than the hook's, as the softirq on the ioctl's own CPU preempts it and  *)
(* runs to the end in between two of its stores.                           *)
(***************************************************************************)
EXTENDS Integers, Sequences

CONSTANTS
  CPUs,         \* the CPUs the hook runs on
  Addr,         \* IPv4 addresses, ZeroIP among them
  Ports,        \* ports, ZeroPort among them
  ZeroIP, ZeroPort,
  UserConfigs,  \* the structs user space passes to SET_CONFIG, a subset of Config
  Frames,       \* the frames the hook is given: records of daddr, proto, dport
  MaxSets       \* bound on the SET_CONFIG calls of a run

TCP == 6
UDP == 17

(* The fields of struct ull_config the hook reads, in layout order        *)
(* (nanonet.h:70-81); copy_from_user stores them in this order.           *)
Layout == <<"enabled", "target_ip", "target_port", "protocol",
            "application_logic_type", "multicast", "multicast_group">>

Config == [enabled : BOOLEAN, target_ip : Addr, target_port : Ports,
           protocol : {0, TCP, UDP}, application_logic_type : {0, 1},
           multicast : BOOLEAN, multicast_group : Addr]

(* The static initialiser of global_config (nanonet.c:21-31).             *)
InitialConfig ==
  [enabled |-> FALSE, target_ip |-> ZeroIP, target_port |-> ZeroPort,
   protocol |-> UDP, application_logic_type |-> 0, multicast |-> FALSE,
   multicast_group |-> ZeroIP]

(* What copy_from_user leaves in the bytes it could not copy.             *)
Zeroed ==
  [enabled |-> FALSE, target_ip |-> ZeroIP, target_port |-> ZeroPort,
   protocol |-> 0, application_logic_type |-> 0, multicast |-> FALSE,
   multicast_group |-> ZeroIP]

(* The hook's outcome: NF_ACCEPT on a bypass, the market-data handler     *)
(* run, or -EINVAL for an unknown application_logic_type.                 *)
Verdicts == {"none", "bypass", "deliver", "error"}

(* Where each CPU's hook is: the field it reads next.                     *)
PCs == {"idle", "enabled", "target_ip", "multicast", "multicast_group",
        "protocol_tcp", "protocol_udp", "target_port", "app_type", "done"}

VARIABLES
  global_config,  \* the shared struct
  wpos,           \* SET_CONFIG: index in Layout of the next field, 0 when idle
  user,           \* SET_CONFIG: the struct it is copying
  sets,           \* SET_CONFIG calls so far
  installed,      \* history: the struct the last finished copy left
  pc,             \* CPU -> where its hook is
  frame,          \* CPU -> the frame its hook handles
  verdict,        \* CPU -> the outcome of its last hook
  window          \* history: CPU -> the whole structs in force during its hook

vars == <<global_config, wpos, user, sets, installed, pc, frame, verdict, window>>

(***************************************************************************)
(* nanonet_hook's decision taken against one struct g: the tests of       *)
(* nanonet.c:73-113 and the switch of packet_processor.c:81-90.           *)
(***************************************************************************)
AppVerdict(g) == IF g.application_logic_type = 0 THEN "deliver" ELSE "error"

Decide(g, f) ==
  CASE ~g.enabled -> "bypass"
    [] f.daddr # g.target_ip /\ (~g.multicast \/ f.daddr # g.multicast_group)
         -> "bypass"
    [] g.protocol = f.proto /\ f.dport # g.target_port -> "bypass"
    [] OTHER -> AppVerdict(g)

-----------------------------------------------------------------------------
Init ==
  /\ global_config = InitialConfig
  /\ wpos = 0
  /\ user = InitialConfig
  /\ sets = 0
  /\ installed = InitialConfig
  /\ pc = [c \in CPUs |-> "idle"]
  /\ frame = [c \in CPUs |-> CHOOSE f \in Frames : TRUE]
  /\ verdict = [c \in CPUs |-> "none"]
  /\ window = [c \in CPUs |-> {}]

Busy(c) == pc[c] \notin {"idle", "done"}

(* A new copy or a faulted one puts its struct in every running window.   *)
Witness(g) == [c \in CPUs |-> IF Busy(c) THEN window[c] \cup {g} ELSE window[c]]

(* SET_CONFIG enters copy_from_user (control_interface.c:39).            *)
SetConfigStart ==
  /\ wpos = 0
  /\ sets < MaxSets
  /\ \E u \in UserConfigs :
       /\ user' = u
       /\ window' = Witness(u)
  /\ wpos' = 1
  /\ sets' = sets + 1
  /\ UNCHANGED <<global_config, installed, pc, frame, verdict>>

(* copy_from_user stores the next field; after the last one the ioctl     *)
(* runs nanonet_validate_config, which only reads, and returns.           *)
CopyField ==
  /\ wpos # 0
  /\ global_config' = [global_config EXCEPT ![Layout[wpos]] = user[Layout[wpos]]]
  /\ wpos' = IF wpos = Len(Layout) THEN 0 ELSE wpos + 1
  /\ installed' = IF wpos = Len(Layout) THEN global_config' ELSE installed
  /\ UNCHANGED <<user, sets, pc, frame, verdict, window>>

(* The user page faults at this field: copy_from_user zeroes the rest of *)
(* the struct and the ioctl returns -EFAULT (control_interface.c:39-42).  *)
CopyFault ==
  /\ wpos # 0
  /\ global_config' =
       [x \in DOMAIN global_config |->
          IF \E j \in wpos..Len(Layout) : Layout[j] = x THEN Zeroed[x]
          ELSE global_config[x]]
  /\ wpos' = 0
  /\ installed' = global_config'
  /\ window' = Witness(global_config')
  /\ UNCHANGED <<user, sets, pc, frame, verdict>>

-----------------------------------------------------------------------------
(* A frame reaches the hook on CPU c; the structs in force as it starts   *)
(* are the last one installed and the one being copied.                   *)
HookStart(c) ==
  /\ ~Busy(c)
  /\ \E f \in Frames : frame' = [frame EXCEPT ![c] = f]
  /\ pc' = [pc EXCEPT ![c] = "enabled"]
  /\ window' = [window EXCEPT ![c] =
                  {installed} \cup (IF wpos # 0 THEN {user} ELSE {})]
  /\ UNCHANGED <<global_config, wpos, user, sets, installed, verdict>>

(* The hook on c reads `field' and goes on to `next', or ends with `v'   *)
(* when `go' is false.                                                    *)
Read(c, field, go, next, v) ==
  /\ pc[c] = field
  /\ IF go THEN pc' = [pc EXCEPT ![c] = next] /\ UNCHANGED verdict
     ELSE pc' = [pc EXCEPT ![c] = "done"] /\ verdict' = [verdict EXCEPT ![c] = v]
  /\ UNCHANGED <<global_config, wpos, user, sets, installed, frame, window>>

(* The hook's reads of global_config, in the order of nanonet.c:73-113   *)
(* and packet_processor.c:81.                                             *)
HookStep(c) ==
  LET g == global_config
      f == frame[c]
      Branch(field, next) == Read(c, field, TRUE, next, "none")
  IN  \/ Read(c, "enabled", g.enabled, "target_ip", "bypass")
      \/ Branch("target_ip", IF f.daddr = g.target_ip THEN "protocol_tcp" ELSE "multicast")
      \/ Read(c, "multicast", g.multicast, "multicast_group", "bypass")
      \/ Read(c, "multicast_group", f.daddr = g.multicast_group, "protocol_tcp", "bypass")
      \/ Branch("protocol_tcp", IF g.protocol = TCP /\ f.proto = TCP
                                THEN "target_port" ELSE "protocol_udp")
      \/ Branch("protocol_udp", IF g.protocol = UDP /\ f.proto = UDP
                                THEN "target_port" ELSE "app_type")
      \/ Read(c, "target_port", f.dport = g.target_port, "app_type", "bypass")
      \/ Read(c, "app_type", FALSE, "done", AppVerdict(g))

Next ==
  \/ SetConfigStart \/ CopyField \/ CopyFault
  \/ \E c \in CPUs : HookStart(c) \/ HookStep(c)

Spec == Init /\ [][Next]_vars

(* The state has its type.                                                *)
TypeOK ==
  /\ global_config \in Config
  /\ wpos \in 0..Len(Layout)
  /\ user \in Config
  /\ sets \in 0..MaxSets
  /\ installed \in Config
  /\ pc \in [CPUs -> PCs]
  /\ frame \in [CPUs -> Frames]
  /\ verdict \in [CPUs -> Verdicts]
  /\ window \in [CPUs -> SUBSET Config]

-----------------------------------------------------------------------------
(***************************************************************************)
(* The spec (section 5) requires that the fast path observe a consistent  *)
(* view of Config: every hook that has ended took the decision one whole  *)
(* struct in force during the hook would give, the old one or one         *)
(* SET_CONFIG installed meanwhile.                                        *)
(***************************************************************************)
HookJudgesOneConfig ==
  \A c \in CPUs : pc[c] = "done" => \E g \in window[c] : verdict[c] = Decide(g, frame[c])

=============================================================================
