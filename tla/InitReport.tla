------------------------------- MODULE InitReport ------------------------------
(***************************************************************************)
(* What get_init of src/api/init/mod.rs does for an Init request: the      *)
(* location, the health and the specs of the machine, read one after the   *)
(* other from child processes and web services, and the numbers it makes   *)
(* of them.  The first reader that fails ends the request with an          *)
(* InitError; one that unwraps panics, and the session with it.            *)
(*                                                                         *)
(* Requests follow each other in one agent process, of one session or of   *)
(* several: a child process nobody waits for is left to all that follow.   *)
(***************************************************************************)
EXTENDS Integers, Sequences, SequencesExt

CONSTANTS
    Grain,      \* f64 steps per micro-degree
    Span,       \* positions the services report: -Span..Span f64 steps
    I32Max,     \* the greatest i32
    Sizes,      \* sizes df prints
    Junk,       \* a df column that is missing or no u64
    MaxRows,    \* bound: filesystems df lists
    Width,      \* how many values a u64 has
    ProcLimit,  \* child processes the agent may have, zombies included
    MaxInits    \* bound: Init requests

ASSUME ReportAssumption ==
    /\ Grain \in Nat \ {0} /\ Grain % 2 = 0
    /\ Span \in Nat /\ I32Max \in Nat
    /\ Sizes \subseteq Nat /\ Junk \notin Sizes
    /\ MaxRows \in Nat /\ Width \in Nat \ {0}
    /\ ProcLimit \in Nat \ {0} /\ MaxInits \in Nat

(* A latitude and a longitude.                                              *)
Position == [lat : -Span..Span, lon : -Span..Span]

NoPosition == [lat |-> Span + 1, lon |-> Span + 1]

(* What df prints of a filesystem.                                          *)
Row == [dev : BOOLEAN, size : Sizes \cup {Junk}]

Tables == UNION {[1..n -> Row] : n \in 0..MaxRows}

VARIABLES
    step,         \* the reader get_init is at; "idle" between requests
    gps, ip,      \* history: the positions the services gave, or NoPosition
    coordinates,  \* Location::coordinates
    table,        \* history: what df printed
    disk,         \* Specs::disk
    zombies,      \* children that ended and were not waited for
    outcome,      \* what became of the request handled last
    inits,        \* history: requests
    reports       \* history: requests answered with a report

placeVars == <<gps, ip, coordinates>>
diskVars  == <<table, disk>>
vars == <<step, placeVars, diskVars, zombies, outcome, inits, reports>>

-------------------------------------------------------------------------------
(* The numbers.                                                             *)

(* Fault: the cast alone, which cuts towards zero.                          *)
Truncated(x) == IF x >= 0 THEN x \div Grain ELSE -((-x) \div Grain)

(* f64::round: to the nearest, halves away from zero.                       *)
Rounded(x) == IF x >= 0 THEN (x + Grain \div 2) \div Grain
                        ELSE -((-x + Grain \div 2) \div Grain)

(* f64 as i32 saturates.                                                    *)
AsI32(n) == IF n > I32Max THEN I32Max
            ELSE IF n < -I32Max - 1 THEN -I32Max - 1 ELSE n

f64_to_i32_coordinates(p) ==
    [lat |-> AsI32(Rounded(p.lat)), lon |-> AsI32(Rounded(p.lon))]

(* Fault: a column that does not parse ends the sum instead of adding none. *)
TotalUpToJunk(rows) ==
    LET Add(total, row) ==
            IF total < 0 \/ row.size = Junk THEN -1
            ELSE IF row.dev THEN (total + row.size) % Width ELSE total
    IN  LET total == FoldLeft(Add, 0, rows) IN IF total < 0 THEN 0 ELSE total

(* The loop of return_total_storage: lines of /dev/ filesystems, a column   *)
(* that does not parse counts nothing, and the sum wraps in a release build.*)
return_total_storage(rows) ==
    LET Add(total, row) ==
            IF row.dev /\ row.size # Junk THEN (total + row.size) % Width
                                          ELSE total
    IN  FoldLeft(Add, 0, rows)

-------------------------------------------------------------------------------
Init ==
    /\ step = "idle" /\ outcome = "none"
    /\ gps = NoPosition /\ ip = NoPosition
    /\ coordinates = [lat |-> 0, lon |-> 0]
    /\ table = <<>> /\ disk = 0
    /\ zombies = 0 /\ inits = 0 /\ reports = 0

(* The request is over.                                                     *)
End(result) ==
    /\ step' = "idle"
    /\ outcome' = result

(* A request with a session key; its locals are fresh.                      *)
Begin ==
    /\ step = "idle"
    /\ inits < MaxInits
    /\ inits' = inits + 1
    /\ step' = "gps"
    /\ outcome' = "none"
    /\ gps' = NoPosition /\ ip' = NoPosition
    /\ table' = <<>>
    /\ UNCHANGED <<coordinates, disk, zombies, reports>>

(* gpspipe's first report holds a position, and it is the location.         *)
GpsLocates ==
    /\ step = "gps"
    /\ zombies < ProcLimit
    /\ gps' \in Position
    /\ coordinates' = f64_to_i32_coordinates(gps')
    /\ step' = "memory"
    /\ UNCHANGED <<ip, diskVars, zombies, outcome, inits, reports>>

(* gpspipe cannot be run, fails, or reports something else first.           *)
GpsFails ==
    /\ step = "gps"
    /\ step' = "ip"
    /\ UNCHANGED <<placeVars, diskVars, zombies, outcome, inits, reports>>

(* ipinfo.io answers with success and two numbers.                          *)
IpLocates ==
    /\ step = "ip"
    /\ ip' \in Position
    /\ coordinates' = f64_to_i32_coordinates(ip')
    /\ step' = "memory"
    /\ UNCHANGED <<gps, diskVars, zombies, outcome, inits, reports>>

(* No answer, another status, no loc in it, or no two numbers.              *)
IpFails ==
    /\ step = "ip"
    /\ End("InitError")
    /\ UNCHANGED <<placeVars, diskVars, zombies, inits, reports>>

(* free | grep Mem: grep is waited for, free never is.  What is read of its *)
(* line is thrown away.                                                     *)
MemoryRead ==
    /\ step = "memory"
    /\ zombies + 1 < ProcLimit
    /\ zombies' = zombies + 1
    /\ step' = "disk"
    /\ UNCHANGED <<placeVars, diskVars, outcome, inits, reports>>

(* Fault: memory that cannot be read is passed over.                        *)
MemoryPassedOver ==
    /\ step = "memory"
    /\ step' = "disk"
    /\ UNCHANGED <<placeVars, diskVars, zombies, outcome, inits, reports>>

(* Fault: the place of a child is counted although it was not started.      *)
MemoryPanicsCounting ==
    /\ step = "memory"
    /\ zombies' = zombies + 1
    /\ End("panicked")
    /\ UNCHANGED <<placeVars, diskVars, inits, reports>>

(* free or grep cannot be started, or the line is too short for the slice.  *)
MemoryPanics ==
    /\ step = "memory"
    /\ zombies' = IF zombies < ProcLimit THEN zombies + 1 ELSE zombies
    /\ End("panicked")
    /\ UNCHANGED <<placeVars, diskVars, inits, reports>>

DiskRead ==
    /\ step = "disk"
    /\ zombies < ProcLimit
    /\ table' \in Tables
    /\ disk' = return_total_storage(table')
    /\ step' = "names"
    /\ UNCHANGED <<placeVars, zombies, outcome, inits, reports>>

(* df cannot be run or prints what is not UTF-8.                            *)
DiskPanics ==
    /\ step = "disk"
    /\ End("panicked")
    /\ UNCHANGED <<placeVars, diskVars, zombies, inits, reports>>

(* Versions and host name are there, and ifconfig.me answers: with its      *)
(* address or, for the status is not looked at, with any other text.        *)
SpecsRead ==
    /\ step = "names"
    /\ End("report")
    /\ reports' = reports + 1
    /\ UNCHANGED <<placeVars, diskVars, zombies, inits>>

(* One of the names is unknown, or the address cannot be fetched.           *)
SpecsFail ==
    /\ step = "names"
    /\ End("InitError")
    /\ UNCHANGED <<placeVars, diskVars, zombies, inits, reports>>

Next ==
    \/ Begin \/ GpsLocates \/ GpsFails \/ IpLocates \/ IpFails
    \/ MemoryRead \/ MemoryPanics \/ DiskRead \/ DiskPanics
    \/ SpecsRead \/ SpecsFail

Spec == Init /\ [][Next]_vars

-------------------------------------------------------------------------------
(* Properties.                                                              *)

I32 == -I32Max - 1..I32Max

(* The fields of a report have the widths they are sent in.                 *)
TypeOK ==
    /\ step \in {"idle", "gps", "ip", "memory", "disk", "names"}
    /\ outcome \in {"none", "report", "InitError", "panicked"}
    /\ gps \in Position \cup {NoPosition} /\ ip \in Position \cup {NoPosition}
    /\ coordinates \in [lat : I32, lon : I32]
    /\ table \in Tables /\ disk \in 0..Width-1
    /\ zombies \in 0..ProcLimit
    /\ inits \in 0..MaxInits /\ reports \in 0..inits

(* The whole number of micro-degrees c is the nearest to x, or the end of   *)
(* the i32s on the side of an x that is beyond them.                        *)
Nearest(c, x) ==
    \A n \in I32 : LET Off(m) == IF Grain * m >= x THEN Grain * m - x
                                                   ELSE x - Grain * m
                   IN  Off(c) <= Off(n)

(* A report tells the position nearest to the one it was made of, in this   *)
(* order: latitude, longitude; and that is gpspipe's, whenever it had one.  *)
ReportedPlaceIsNearest ==
    outcome = "report" =>
        LET p == IF gps # NoPosition THEN gps ELSE ip
        IN  p # NoPosition /\ Nearest(coordinates.lat, p.lat)
                           /\ Nearest(coordinates.lon, p.lon)

Devices(rows) == {i \in DOMAIN rows : rows[i].dev /\ rows[i].size # Junk}

(* The disk space reported is that of all /dev/ filesystems df could size,  *)
(* each once and in any order, as long as a u64 holds it.                   *)
ReportedDiskIsSumOfDevices ==
    outcome = "report" =>
        LET space == MapThenSumSet(LAMBDA i : table[i].size, Devices(table))
        IN  IF space < Width THEN disk = space ELSE disk < Width

(* Every report costs the agent a process it never gets back, and one more  *)
(* has to be free for each: one agent process sends fewer reports than it   *)
(* may have processes, whatever the other requests came to.                 *)
ReportsUseUpProcesses ==
    /\ reports <= zombies
    /\ reports < ProcLimit
================================================================================
