---------------------------- MODULE SdCardProtocol ----------------------------
(***************************************************************************)
(* The SPI-mode SD card of sim/integration/sdcard_protocol.py, byte by     *)
(* byte: SDHC or SDSC, forgiving or strict, with its faults.  The emulator *)
(* implements the same rules.                                              *)
(***************************************************************************)
EXTENDS Integers, Sequences, SequencesExt, FiniteSets

CONSTANTS
    Sector,        \* bytes of a sector (SECTOR)
    Lbas,          \* sectors of the card, 0 .. n
    Cards,         \* kinds of card: records [sdhc, strict]
    FaultSets      \* records [mute, never_ready, read_error, bad_sectors, write_reject]

ASSUME SdCardAssumption ==
    /\ Sector \in Nat \ {0} /\ Lbas = 0 .. Cardinality(Lbas) - 1 /\ Lbas \subseteq Nat
    /\ \A c \in Cards : c.sdhc \in BOOLEAN /\ c.strict \in BOOLEAN

VARIABLES
    card, fault,             \* what the card is and how it fails
    sectors,                 \* lba -> bytes
    violations,              \* strict mode's, by kind
    idle_clocks, first_cmd_seen, ready, fast_reported,
    sclk_fast,               \* sclk_hz > INIT_SCLK_HZ
    resp, cstate, cbuf, lba  \* _resp, _state, _buf, _lba

cardVars == <<card, fault, sectors, violations, idle_clocks, first_cmd_seen, ready, fast_reported,
              sclk_fast, resp, cstate, cbuf, lba>>

POWER_UP_CLOCKS == 74

\* "{sector} bytes of zero" for a sector that was never set
get_sector(n) == IF n \in Lbas THEN sectors[n] ELSE [i \in 1 .. Sector |-> 0]

CardInit ==
    /\ card \in Cards /\ fault \in FaultSets
    /\ sectors = [n \in Lbas |-> [i \in 1 .. Sector |-> 0]]
    /\ violations = {} /\ idle_clocks = 0 /\ first_cmd_seen = FALSE /\ ready = FALSE
    /\ fast_reported = FALSE /\ sclk_fast = FALSE
    /\ resp = <<>> /\ cstate = "idle" /\ cbuf = <<>> /\ lba = 0

\* set_cs: CS going high drops a partial command or block
set_cs(selected) ==
    /\ cstate' = IF selected THEN cstate ELSE "idle"
    /\ cbuf' = IF selected THEN cbuf ELSE <<>>

\* begin_byte: the MISO byte, decided before the MOSI byte is known
begin_byte == IF resp # <<>> THEN Head(resp) ELSE 255

\* _addr_lba: 65536 is where the forgiving card takes an argument for a byte offset
addr_lba(arg) ==
    IF card.strict THEN IF card.sdhc THEN arg ELSE arg \div Sector
                   ELSE IF arg < 65536 THEN arg ELSE arg \div Sector

Unaligned(c, arg) == c \in {17, 24} /\ card.strict /\ ~card.sdhc /\ arg % Sector # 0

Arg(frame) == frame[2] * 16777216 + frame[3] * 65536 + frame[4] * 256 + frame[5]

\* the answer to a command; becomesReady is _ready after it
Answer(c, arg, becomesReady) ==
    CASE c = 0  -> <<255, 1>>
      [] c = 8  -> <<255, 1, 0, 0, 1, 170>>
      [] c = 55 -> IF ready THEN <<255, 0>> ELSE <<255, 1>>
      [] c \in {1, 41} -> IF becomesReady THEN <<255, 0>> ELSE <<255, 1>>
      [] c = 58 -> <<255, 0, IF card.sdhc THEN 192 ELSE 128, 255, 128, 0>>
      [] c = 16 -> <<255, 0>>
      [] c = 17 -> IF fault.read_error \/ addr_lba(arg) \in fault.bad_sectors
                   THEN <<255, 0, 255, 8>>
                   ELSE <<255, 0, 255, 254>> \o get_sector(addr_lba(arg)) \o <<18, 52>>
      [] c = 24 -> <<255, 0>>
      [] c \notin {0, 8, 55, 1, 41, 58, 16, 17, 24} -> <<>>

\* _command; rest is what is left of the answer being sent (nothing: the card listens)
command(c, arg, rest, slow) ==
    LET mute == c \in fault.mute
        nowReady == IF mute THEN ready ELSE
                    IF c = 0 THEN FALSE ELSE IF c \in {1, 41} THEN ~fault.never_ready ELSE ready
    IN  /\ first_cmd_seen' = TRUE
        /\ violations' = violations \cup slow
              \cup (IF ~first_cmd_seen /\ card.strict /\ idle_clocks < POWER_UP_CLOCKS THEN {"power-up"} ELSE {})
              \cup (IF ~mute /\ Unaligned(c, arg) THEN {"alignment"} ELSE {})
        /\ ready' = nowReady
        /\ fast_reported' = ((fast_reported \/ slow # {}) /\ ~(~mute /\ c \in {1, 41} /\ nowReady))
        /\ resp' = IF mute THEN rest ELSE rest \o Answer(c, arg, nowReady)
        /\ cstate' = IF c = 24 /\ ~mute THEN "wait_token" ELSE "idle"
        /\ lba' = IF c = 24 /\ ~mute THEN addr_lba(arg) ELSE lba

\* end_byte, after begin_byte: one byte clocked with CS low (selected) or high, at a given
\* SCLK (set_sclk_hz)
exchange(mosi, selected, fast) ==
    LET answering == resp # <<>>
        rest == IF answering THEN Tail(resp) ELSE resp
        slow == IF card.strict /\ ~ready /\ fast /\ ~fast_reported THEN {"sclk"} ELSE {}
        buf  == Append(cbuf, mosi)
        full == cstate = "cmd" /\ Len(buf) = 6
        listens == ~answering /\ selected
    IN  /\ sclk_fast' = fast
        /\ idle_clocks' = IF ~selected /\ ~first_cmd_seen THEN idle_clocks + 8 ELSE idle_clocks
        /\ IF listens /\ full
           THEN command(buf[1] % 64, Arg(buf), rest, slow) /\ cbuf' = buf /\ UNCHANGED sectors
           ELSE /\ violations' = violations \cup slow /\ fast_reported' = (fast_reported \/ slow # {})
                /\ UNCHANGED <<first_cmd_seen, ready, lba>>
                /\ \/ /\ ~listens
                      /\ resp' = rest /\ UNCHANGED <<cstate, cbuf, sectors>>
                   \/ /\ listens /\ cstate = "idle"
                      /\ IF mosi \div 64 = 1 THEN cstate' = "cmd" /\ cbuf' = <<mosi>>
                                             ELSE UNCHANGED <<cstate, cbuf>>
                      /\ resp' = rest /\ UNCHANGED sectors
                   \/ /\ listens /\ cstate = "cmd"
                      /\ cbuf' = buf /\ resp' = rest /\ UNCHANGED <<cstate, sectors>>
                   \/ /\ listens /\ cstate = "wait_token"
                      /\ IF mosi = 254 THEN cstate' = "data" /\ cbuf' = <<>>
                                       ELSE UNCHANGED <<cstate, cbuf>>
                      /\ resp' = rest /\ UNCHANGED sectors
                   \/ /\ listens /\ cstate = "data"
                      /\ cbuf' = buf
                      /\ IF Len(buf) < Sector + 2 THEN resp' = rest /\ UNCHANGED <<cstate, sectors>>
                         ELSE /\ cstate' = "resync"
                              /\ resp' = rest \o (IF fault.write_reject THEN <<11>> ELSE <<5, 63>>)
                              /\ sectors' = IF fault.write_reject \/ lba \notin Lbas THEN sectors
                                            ELSE [sectors EXCEPT ![lba] = SubSeq(buf, 1, Sector)]
                   \/ /\ listens /\ cstate = "resync"
                      /\ resp' = rest /\ UNCHANGED <<cstate, cbuf, sectors>>
        /\ UNCHANGED <<card, fault>>
==============================================================================
