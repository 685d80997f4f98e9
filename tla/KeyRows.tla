------------------------------ MODULE KeyRows ------------------------------
(***************************************************************************)
(* What the list of API keys says of a key: its status, its expiry and the *)
(* key itself, behind a mask or not; and what is copied from the list and  *)
(* from the dialog of a new key (pages/Keys.tsx).                          *)
(*                                                                         *)
(* The server keeps the expiry in UTC and sends it without an offset       *)
(* (auth/api_keys 48-49, admin/router 133), and `new Date` takes such a    *)
(* time for the browser's own.  Time is counted in hours, by UTC.          *)
(***************************************************************************)
EXTENDS Integers

CONSTANTS Zones,         \* offsets of browsers, positive to the east
          Expirations,   \* EXPIRATION_OPTIONS: 0 is "No expiration"
          FirstExpiration,
          MaxHour        \* bound of the clock

\* Assumed where this module is instantiated, in DashboardPages.
ExpirationAssumption ==
  /\ FirstExpiration \in Expirations /\ Expirations \subseteq Nat
  /\ 0 \in Zones /\ Zones \subseteq Int

VARIABLES zone, hour,
          expirationDays,
          keyRow,        \* the server's row
          listedRow,     \* the row on the screen
          revealed,      \* visibleKeys
          copiedMark,    \* copied
          clipboard,     \* what it holds: nothing yet, the key, something else
          denied         \* history: the browser denied the last write

vars == <<zone, hour, expirationDays, keyRow, listedRow, revealed, copiedMark,
          clipboard, denied>>

Never == -1
NoRow == [expires |-> Never, active |-> FALSE]
Row == [expires : {Never} \cup 0..(2 * MaxHour), active : BOOLEAN]

TypeOK ==
  /\ zone \in Zones /\ hour \in 0..MaxHour
  /\ expirationDays \in Expirations
  /\ keyRow \in Row /\ listedRow \in Row
  /\ clipboard \in {"none", "key", "other"}
  /\ {revealed, copiedMark, denied} \subseteq BOOLEAN

Init ==
  /\ zone \in Zones /\ hour = 0 /\ expirationDays = FirstExpiration
  /\ keyRow = NoRow /\ listedRow = NoRow
  /\ revealed = FALSE /\ copiedMark = FALSE /\ clipboard = "none"
  /\ denied = FALSE
-----------------------------------------------------------------------------
(* A row.                                                                   *)

\* isExpired: the time is read as one of the browser's zone.
IsExpired(expires) == expires # Never /\ expires - zone < hour

\* The status, in the table and on the cards of a narrow screen.
StatusLabel(r) == IF ~r.active THEN "Revoked"
                  ELSE IF IsExpired(r.expires) THEN "Expired" ELSE "Active"

\* maskKey keeps the prefix and the length.
Shows == IF revealed THEN "key" ELSE "mask"
Card == [status |-> StatusLabel(listedRow), key |-> Shows,
         expires |-> listedRow.expires]
-----------------------------------------------------------------------------
Listed == listedRow # NoRow

\* The select of the dialog; Cancel leaves it as it is.
ChooseExpiration(d) ==
  /\ expirationDays' = d
  /\ UNCHANGED <<zone, hour, keyRow, listedRow, revealed, copiedMark, clipboard,
                 denied>>

\* handleCreate, when it succeeds, and the list it loads.
CreateKey ==
  /\ keyRow = NoRow
  /\ keyRow' = [expires |-> IF expirationDays > 0 THEN hour + expirationDays
                            ELSE Never,
                active |-> TRUE]
  /\ listedRow' = keyRow' /\ expirationDays' = FirstExpiration
  /\ copiedMark' = FALSE
  /\ UNCHANGED <<zone, hour, revealed, clipboard, denied>>

\* loadKeys.
LoadKeys ==
  /\ keyRow # NoRow /\ listedRow' = keyRow
  /\ UNCHANGED <<zone, hour, expirationDays, keyRow, revealed, copiedMark,
                 clipboard, denied>>

ToggleKeyVisibility ==
  /\ Listed /\ revealed' = ~revealed
  /\ UNCHANGED <<zone, hour, expirationDays, keyRow, listedRow, copiedMark,
                 clipboard, denied>>

\* handleCopy waits for no answer of the browser.
HandleCopy(ok) ==
  /\ Listed /\ copiedMark' = TRUE
  /\ clipboard' = IF ok THEN "key" ELSE clipboard
  /\ denied' = ~ok
  /\ UNCHANGED <<zone, hour, expirationDays, keyRow, listedRow, revealed>>

\* copyToClipboard, the button of a row: the whole key, masked or not.
CopyToClipboard(ok) ==
  /\ Listed
  /\ clipboard' = IF ok THEN "key" ELSE clipboard
  /\ denied' = (~ok /\ denied)
  /\ UNCHANGED <<zone, hour, expirationDays, keyRow, listedRow, revealed,
                 copiedMark>>

\* Two seconds after a click, be it the last one or not.
MarkGoes ==
  /\ copiedMark /\ copiedMark' = FALSE
  /\ UNCHANGED <<zone, hour, expirationDays, keyRow, listedRow, revealed,
                 clipboard, denied>>

HourPasses ==
  /\ hour < MaxHour /\ hour' = hour + 1
  /\ copiedMark' = FALSE
  /\ UNCHANGED <<zone, expirationDays, keyRow, listedRow, revealed, clipboard,
                 denied>>
-----------------------------------------------------------------------------
(* The server.                                                              *)

Accepts == keyRow.active /\ (keyRow.expires = Never \/ hour <= keyRow.expires)

\* get_api_key_by_prefix: an expired key that is used is no longer active.
Use ==
  /\ keyRow # NoRow /\ keyRow' = [keyRow EXCEPT !.active = Accepts]
  /\ UNCHANGED <<zone, hour, expirationDays, listedRow, revealed, copiedMark,
                 clipboard, denied>>

Next ==
  \/ \E d \in Expirations : ChooseExpiration(d)
  \/ CreateKey \/ LoadKeys \/ ToggleKeyVisibility \/ MarkGoes
  \/ \E ok \in BOOLEAN : HandleCopy(ok) \/ CopyToClipboard(ok)
  \/ HourPasses \/ Use

Spec == Init /\ [][Next]_vars
-----------------------------------------------------------------------------
Near(a, b) == a - b \in -zone..zone \/ a - b \in zone..-zone

(* A key that was listed since it was used last is called Active exactly    *)
(* when the server accepts it, but for as many hours around its expiry as   *)
(* the browser is away from UTC: to the east it looks expired too early,    *)
(* to the west too late.  One without expiry never looks expired.           *)
(* "Copied!" stands for a key on the clipboard, unless the browser denied   *)
(* the write (lines 54-65, 90-114, 293-331).                                *)
RowsTell ==
  /\ Listed /\ listedRow = keyRow =>
       LET active == Card.status = "Active"
       IN /\ zone = 0 \/ ~Near(hour, keyRow.expires) => (active <=> Accepts)
          /\ zone > 0 => (active => Accepts)
          /\ zone < 0 => (Card.status = "Expired" => ~Accepts)
          /\ keyRow.expires = Never => active
  /\ copiedMark => clipboard = "key" \/ denied
=============================================================================
