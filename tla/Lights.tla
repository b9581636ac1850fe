------------------------------- MODULE Lights -------------------------------
(***************************************************************************)
(* liblights/lights.cpp: the lights HAL.  Notifications, battery and        *)
(* attention are three devices that drive the same LED through text         *)
(* commands to the kernel; the backlight is two files.  A caller computes   *)
(* what to write, takes g_lock and writes command by command.  Only the     *)
(* buttons have a vendor device.                                            *)
(***************************************************************************)
EXTENDS Integers, Sequences, FiniteSets

CONSTANTS Threads,
          Colours,             \* <<red, green, blue>>
          Flashes,             \* [on, off] in ms; with a 0 it does not flash
          MaxBrightness,       \* what the kernel's file says
          LCD_BRIGHTNESS_MIN,
          MaxLosses            \* bound on the writes that fail

VARIABLES devices,   \* the open light devices by name
          vendorOpen,\* the vendor's device for the buttons is open
          todo,      \* what a thread that wants g_lock has still to write
          g_lock,    \* the thread that holds it
          led,       \* the kernel's state of the three channels
          lcd,       \* the two backlight files
          last,      \* what the last thread inside g_lock asked for
          failed,    \* the channels and files for which a write of it failed
          losses     \* writes that have failed

ltvars == <<devices, vendorOpen, todo, g_lock, led, lcd, last, failed, losses>>

Nobody == "nobody"
Names == {"backlight", "notifications", "battery", "attention", "buttons"}
LedNames == {"notifications", "battery", "attention"}
Channels == 1..3
NoFlash == [on |-> 0, off |-> 0]
Dark == [steady |-> FALSE, blink |-> FALSE, brightness |-> 0, timing |-> NoFlash]
NothingLit == [colour |-> <<0, 0, 0>>, flash |-> NoFlash]

LtInit == /\ devices = {} /\ vendorOpen = FALSE
          /\ todo = [t \in Threads |-> <<>>] /\ g_lock = Nobody
          /\ led = [c \in Channels |-> Dark] /\ lcd = <<0, 0>>
          /\ last = [led |-> NothingLit, backlight |-> <<0, 0, 0>>]
          /\ failed = [led |-> {}, lcd |-> {}] /\ losses = 0

---------------------------------------------------------------------------
rgb_to_brightness(c) == ((77 * c[1]) + (150 * c[2]) + (29 * c[3])) \div 256

BacklightValue(c) ==
    LET b == rgb_to_brightness(c)
        scaled == (MaxBrightness * b) \div 255
    IN IF b = 0 THEN 0
       ELSE IF scaled < LCD_BRIGHTNESS_MIN THEN LCD_BRIGHTNESS_MIN ELSE scaled

\* The commands of fih_led: 4 brightness, 1 steady, 2 blink, 7 timing.
Cmd(n, c, v) == [cmd |-> n, led |-> c, value |-> v]

\* Variant: a channel that goes dark is not told to stop blinking.
channelOffSteady(c, brightness, flash) ==
    IF brightness <= 0 THEN <<Cmd(1, c, 0)>>
    ELSE <<Cmd(4, c, brightness)>> \o
         IF flash.on > 0 /\ flash.off > 0 THEN <<Cmd(7, c, flash), Cmd(2, c, 1)>>
                                          ELSE <<Cmd(2, c, 0), Cmd(1, c, 1)>>

set_led_channel(c, brightness, flash) ==
    IF brightness <= 0 THEN <<Cmd(2, c, 0), Cmd(1, c, 0)>>
    ELSE <<Cmd(4, c, brightness)>> \o
         IF flash.on > 0 /\ flash.off > 0 THEN <<Cmd(7, c, flash), Cmd(2, c, 1)>>
                                          ELSE <<Cmd(2, c, 0), Cmd(1, c, 1)>>

\* The kernel's side of a command (from the comment at LED_CONTROL_FILE).
led_ctl(L, k) ==
    CASE k.cmd = 4 -> [L EXCEPT ![k.led].brightness = k.value]
      [] k.cmd = 1 -> [L EXCEPT ![k.led].steady = (k.value = 1)]
      [] k.cmd = 2 -> [L EXCEPT ![k.led].blink = (k.value = 1)]
      [] k.cmd = 7 -> [L EXCEPT ![k.led].timing = k.value]

---------------------------------------------------------------------------
\* lights_set_light_led and lights_set_light_backlight up to g_lock.
lights_set_light_led(t, name, colour, flash) ==
    /\ name \in devices \cap LedNames /\ g_lock = Nobody
    /\ g_lock' = t
    /\ todo' = [todo EXCEPT ![t] = set_led_channel(1, colour[1], flash)
                    \o set_led_channel(2, colour[2], flash)
                    \o set_led_channel(3, colour[3], flash)]
    /\ last' = [last EXCEPT !.led = [colour |-> colour, flash |-> flash]]
    /\ failed' = [failed EXCEPT !.led = {}]
    /\ UNCHANGED <<devices, vendorOpen, led, lcd, losses>>

lights_set_light_backlight(t, colour) ==
    /\ "backlight" \in devices /\ g_lock = Nobody
    /\ g_lock' = t
    /\ todo' = [todo EXCEPT ![t] = <<Cmd(0, 1, BacklightValue(colour)),
                                     Cmd(0, 2, BacklightValue(colour))>>]
    /\ last' = [last EXCEPT !.backlight = colour]
    /\ failed' = [failed EXCEPT !.lcd = {}]
    /\ UNCHANGED <<devices, vendorOpen, led, lcd, losses>>

\* One command or file is written; the last one releases g_lock.  Opening or
\* writing the file may fail: the caller goes on, and lights_set_light_backlight
\* returns an error; led_ctl logs it, and its callers return no error.
Write(t) ==
    /\ todo[t] # <<>> /\ g_lock = t
    /\ LET k == Head(todo[t])
       IN \/ /\ IF k.cmd = 0 THEN lcd' = [lcd EXCEPT ![k.led] = k.value] /\ UNCHANGED led
                             ELSE led' = led_ctl(led, k) /\ UNCHANGED lcd
             /\ UNCHANGED <<failed, losses>>
          \/ /\ losses < MaxLosses /\ losses' = losses + 1
             /\ failed' = IF k.cmd = 0 THEN [failed EXCEPT !.lcd = @ \cup {k.led}]
                          ELSE [failed EXCEPT !.led = @ \cup {k.led}]
             /\ UNCHANGED <<led, lcd>>
    /\ todo' = [todo EXCEPT ![t] = Tail(@)]
    /\ g_lock' = IF Len(todo[t]) = 1 THEN Nobody ELSE g_lock
    /\ UNCHANGED <<devices, vendorOpen, last>>

\* open_lights under gLightWrapperLock: the vendor is asked for the buttons only
\* and may not have them.
open_lights(name) ==
    /\ name \notin devices
    /\ \/ devices' = devices \cup {name} /\ vendorOpen' = (vendorOpen \/ name = "buttons")
       \/ name = "buttons" /\ UNCHANGED <<devices, vendorOpen>>
    /\ UNCHANGED <<todo, g_lock, led, lcd, last, failed, losses>>

lights_device_close(name) ==
    /\ name \in devices
    /\ devices' = devices \ {name}
    /\ vendorOpen' = (vendorOpen /\ name # "buttons")
    /\ UNCHANGED <<todo, g_lock, led, lcd, last, failed, losses>>

LtNext ==
    \/ \E n \in Names : open_lights(n) \/ lights_device_close(n)
    \/ \E t \in Threads :
          \/ Write(t)
          \/ \E c \in Colours : \/ lights_set_light_backlight(t, c)
                                \/ \E n \in LedNames, f \in Flashes :
                                      lights_set_light_led(t, n, c, f)

LtSpec == LtInit /\ [][LtNext]_ltvars

---------------------------------------------------------------------------
\* A channel is as asked for: off it neither blinks nor is steady; on it has the
\* brightness, and the timing if it blinks, and does not blink if it is steady.
Shows(c, brightness, flash) ==
    IF brightness = 0 THEN ~led[c].blink /\ ~led[c].steady
    ELSE /\ led[c].brightness = brightness
         /\ IF flash.on > 0 /\ flash.off > 0 THEN led[c].blink /\ led[c].timing = flash
            ELSE led[c].steady /\ ~led[c].blink

\* Whatever was shown before, also by a request that half failed, and however
\* the callers were interleaved: outside g_lock every channel shows the last
\* request, unless a write of that request for this channel failed; and so do
\* the two backlight files after a call that returned no error, dark exactly
\* when darkness was asked for.
ShowsLastRequest ==
    g_lock = Nobody =>
        /\ \A c \in Channels \ failed.led : Shows(c, last.led.colour[c], last.led.flash)
        /\ failed.lcd = {} => /\ lcd[1] = lcd[2] /\ lcd[1] <= MaxBrightness
                             /\ lcd[1] = 0 <=> rgb_to_brightness(last.backlight) = 0

---------------------------------------------------------------------------
\* The inductive invariant behind it: every command of the last requests has
\* been carried out, with nothing after it that undoes it, is still to come, or
\* is one for a channel or file that a write failed for.
Cmds(s) == {s[i] : i \in DOMAIN s}
ToCome == IF g_lock = Nobody THEN {} ELSE Cmds(todo[g_lock])
Wanted(c) == Cmds(set_led_channel(c, last.led.colour[c], last.led.flash))
WantedFiles == {Cmd(0, 1, BacklightValue(last.backlight)),
                Cmd(0, 2, BacklightValue(last.backlight))}
AllWanted == WantedFiles \cup Wanted(1) \cup Wanted(2) \cup Wanted(3)
Done(k) == /\ k.cmd = 0 => lcd[k.led] = k.value
           /\ k.cmd = 1 => (led[k.led].steady <=> k.value = 1)
           /\ k.cmd = 2 => (led[k.led].blink <=> k.value = 1)
           /\ k.cmd = 4 => led[k.led].brightness = k.value
           /\ k.cmd = 7 => led[k.led].timing = k.value

Lost(k) == k.led \in IF k.cmd = 0 THEN failed.lcd ELSE failed.led

Values == (0..255) \cup (0..MaxBrightness) \cup Flashes \cup {NoFlash}
Commands == [cmd : {0, 1, 2, 4, 7}, led : Channels, value : Values]
AllColours == Colours \cup {<<0, 0, 0>>}
LtTypeOK ==
    /\ g_lock \in Threads \cup {Nobody}
    /\ todo \in [Threads -> Seq(Commands)]
    /\ led \in [Channels -> [steady : BOOLEAN, blink : BOOLEAN, brightness : Values,
                             timing : Values]]
    /\ lcd \in [1..2 -> Values]
    /\ last \in [led : [colour : AllColours, flash : Flashes \cup {NoFlash}],
                 backlight : AllColours]
    /\ failed \in [led : SUBSET Channels, lcd : SUBSET (1..2)]
LtInv == /\ LtTypeOK
         /\ ToCome \subseteq AllWanted
         /\ \A k \in AllWanted : k \in ToCome \/ Done(k) \/ Lost(k)
=============================================================================
