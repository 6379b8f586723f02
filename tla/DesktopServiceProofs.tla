------------------------ MODULE DesktopServiceProofs ------------------------
(***************************************************************************)
(* However many calls change the listen address, the tunnel and the        *)
(* settings at the same time, whichever step of one fails, and whenever    *)
(* the program quits, crashes and comes back, it listens at one address at *)
(* most, and a tunnel none of whose starts met a change of the address     *)
(* leads to it: for any number of goroutines and any addresses.  Both are  *)
(* about the variables between two steps; the invariant adds what the      *)
(* goroutine that holds controlMu knows at each, and what a start that has *)
(* read the server's address can rely on.                                  *)
(***************************************************************************)
EXTENDS DesktopService, TLAPS

\* A call that needs an address has one.
ArgInv ==
    \A c \in Callers : pc[c] \in {"lock", "start", "starting"} \cup ListenPcs => arg[c] \in Addresses

\* There are calls only while the program is up, which it is once it has a server.
LifeInv ==
    /\ \A c \in Callers : pc[c] # "idle" => life \in Up
    /\ life \in Up \cup {"restoring"} => controlURL \in Addresses
    /\ life \notin Up => controlMu = None /\ opMu = None /\ mode = "stopped" /\ ~raced
    /\ life \in {"down", "opening"} => open = {} /\ control = None
    /\ life = "restoring" => open = {control} /\ control = listenAddr
    /\ life \in Closing => control \in {None, listenAddr}

\* What the holder of controlMu has done so far: the server it is to close is the
\* one there is; there is none once it is closed; the new one is at its address.
HolderInv ==
    \A c \in Callers :
        /\ pc[c] \in {"stopFirst", "disable", "close"} => old[c] = control /\ control \in {None, listenAddr}
        /\ pc[c] \in {"open", "restore"} => control = None
        /\ pc[c] = "listening" => control = arg[c]

Reading == {"start", "starting"}

\* While no start has met a change of the address: one that has read the address
\* has the right one, none has while a change is under way, and past its first
\* step such a change need not fear a tunnel.
UrlInv ==
    /\ control # None => controlURL = control
    /\ ~raced =>
          /\ \A c \in Callers : pc[c] \in Reading => arg[c] = controlURL
          /\ \A c, d \in Callers : pc[c] \in ListenPcs => pc[d] \notin Reading
          /\ \A c \in Callers : pc[c] \in ListenPcs \ {"stopFirst"} => mode # "running"
          /\ mode = "running" => control \in {target, None}

IInv == TypeOK /\ ArgInv /\ LifeInv /\ HolderInv /\ OneServer /\ UrlInv

-----------------------------------------------------------------------------
(* The states of a program that is not up                                     *)

LEMMA InitInv == Init => IInv
<1> SUFFICES ASSUME Init PROVE IInv
    OBVIOUS
<1> USE AddressesAssumption DEF Init, Default, Settings
<1>1. TypeOK
  <2>1. /\ pc \in [Callers -> {"idle", "lock"} \cup ListenPcs \cup TunnelPcs]
        /\ arg \in [Callers -> Addresses \cup Domains \cup {None}]
        /\ old \in [Callers -> Addresses \cup {None}]
      OBVIOUS
  <2>2. settings \in Settings /\ file \in Settings \cup {Torn}
      OBVIOUS
  <2>3. \A c \in Callers : (controlMu = c <=> pc[c] \in ListenPcs) /\ (opMu = c <=> pc[c] = "starting")
      BY DEF ListenPcs
  <2> QED
      BY <2>1, <2>2, <2>3 DEF TypeOK, Lives, Closing, None, Main
<1>2. ArgInv /\ HolderInv
    BY DEF ArgInv, HolderInv, ListenPcs
<1>3. LifeInv
    BY DEF LifeInv, Up, Closing
<1>4. OneServer /\ UrlInv
    BY DEF OneServer, UrlInv, Reading, ListenPcs
<1> QED
    BY <1>1, <1>2, <1>3, <1>4 DEF IInv

LEMMA GoneInv == IInv /\ Gone => IInv'
<1> SUFFICES ASSUME IInv, Gone PROVE IInv'
    OBVIOUS
<1> USE AddressesAssumption DEF Gone, Default, Settings
<1>1. TypeOK'
  <2>1. /\ pc' \in [Callers -> {"idle", "lock"} \cup ListenPcs \cup TunnelPcs]
        /\ arg' \in [Callers -> Addresses \cup Domains \cup {None}]
        /\ old' \in [Callers -> Addresses \cup {None}]
      OBVIOUS
  <2>2. settings' \in Settings /\ file' \in Settings \cup {Torn}
      BY DEF IInv, TypeOK
  <2>3. \A c \in Callers : (controlMu' = c <=> pc'[c] \in ListenPcs) /\ (opMu' = c <=> pc'[c] = "starting")
      BY DEF ListenPcs
  <2> QED
      BY <2>1, <2>2, <2>3 DEF TypeOK, Lives, Closing, None, Main
<1>2. ArgInv' /\ HolderInv'
    BY DEF ArgInv, HolderInv, ListenPcs
<1>3. LifeInv'
    BY DEF LifeInv, Up, Closing
<1>4. OneServer' /\ UrlInv'
    BY DEF OneServer, UrlInv, Reading, ListenPcs
<1> QED
    BY <1>1, <1>2, <1>3, <1>4 DEF IInv

-----------------------------------------------------------------------------
(* The steps of main.  They take no call further.                             *)

MainStep == Launch \/ RemoveFile \/ StartControlServer \/ Restore \/ Quit \/ Shutdown
    \/ StopAppServer \/ StopAtQuit \/ PhoneCalls \/ CallOver

LEMMA MainType ==
    ASSUME IInv, MainStep, ~Gone
    PROVE  TypeOK' /\ UNCHANGED call
<1> USE AddressesAssumption DEF IInv, TypeOK, call, tunnel, server, saved, Lives, Up, Closing
<1>1. CASE Launch
    BY <1>1 DEF Launch, Settings
<1>2. CASE RemoveFile
    BY <1>2 DEF RemoveFile, Settings, Default, program
<1>3. CASE StartControlServer
    BY <1>3 DEF StartControlServer, Opened
<1>4. CASE Restore
    BY <1>4 DEF Restore
<1>5. CASE Quit
    BY <1>5 DEF Quit
<1>6. CASE Shutdown
    BY <1>6 DEF Shutdown
<1>7. CASE StopAtQuit
    BY <1>7 DEF StopAtQuit, StopTunnelProcess, None, Main
<1>8. CASE StopAppServer \/ PhoneCalls \/ CallOver
    BY <1>8 DEF StopAppServer, PhoneCalls, CallOver
<1> QED
    BY <1>1, <1>2, <1>3, <1>4, <1>5, <1>6, <1>7, <1>8 DEF MainStep

LEMMA MainInv ==
    ASSUME IInv, MainStep, ~Gone
    PROVE  IInv'
<1>1. TypeOK' /\ UNCHANGED call
    BY MainType
<1>2. ArgInv'
    BY <1>1 DEF IInv, ArgInv, call
<1>3. \A c \in Callers : pc[c] \in ListenPcs => life \in Up \ Closing /\ controlMu = c
    BY AddressesAssumption DEF IInv, TypeOK, LifeInv, ListenPcs
<1> USE <1>1, <1>3, AddressesAssumption
        DEF IInv, TypeOK, LifeInv, HolderInv, OneServer, UrlInv, Up, Closing, ListenPcs, Reading, call, tunnel, server, saved
<1>4. CASE Launch
    BY <1>2, <1>4 DEF Launch
<1>5. CASE RemoveFile
    BY <1>2, <1>5 DEF RemoveFile, program
<1>6. CASE StartControlServer
    BY <1>2, <1>6 DEF StartControlServer, Opened
<1>7. CASE Restore
    BY <1>2, <1>7 DEF Restore
<1>8. CASE Quit
    BY <1>2, <1>8 DEF Quit
<1>9. CASE Shutdown
    BY <1>2, <1>9 DEF Shutdown
<1>10. CASE StopAtQuit
    BY <1>2, <1>10 DEF StopAtQuit, StopTunnelProcess, UrlRead
<1>11. CASE StopAppServer \/ PhoneCalls \/ CallOver
    BY <1>2, <1>11 DEF StopAppServer, PhoneCalls, CallOver
<1> QED
    BY <1>4, <1>5, <1>6, <1>7, <1>8, <1>9, <1>10, <1>11 DEF MainStep

-----------------------------------------------------------------------------
(* The calls' steps.  Those of the tunnel leave the server alone.             *)

TunnelOrFirst(c) ==
    TunnelStep(c) \/ StartTunnel(c) \/ StopTunnel(c) \/ SetTunnelURL(c)

LEMMA TunnelFrame ==
    ASSUME IInv, NEW c \in Callers, TunnelOrFirst(c)
    PROVE  /\ UNCHANGED server /\ life \in Up
           /\ \A d \in Callers \ {c} : pc'[d] = pc[d] /\ arg'[d] = arg[d] /\ old'[d] = old[d]
           /\ pc[c] \notin ListenPcs /\ pc'[c] \in {"idle"} \cup TunnelPcs
           /\ pc' \in [Callers -> {"idle", "lock"} \cup ListenPcs \cup TunnelPcs]
           /\ arg' \in [Callers -> Addresses \cup Domains \cup {None}]
           /\ old' \in [Callers -> Addresses \cup {None}]
           /\ pc'[c] \in {"start", "starting"} => arg'[c] \in Addresses
<1> USE DEF IInv, TypeOK, LifeInv, Up, Closing, ListenPcs, TunnelPcs, Goes, GoesWith, Return
<1>1. CASE EnableTunnel(c)
    BY <1>1 DEF EnableTunnel
<1>2. CASE ReadCustom(c)
    BY <1>2 DEF ReadCustom
<1>3. CASE ReadURL(c)
    BY <1>3 DEF ReadURL
<1>4. CASE StartTunnelProcess(c)
    BY <1>4 DEF StartTunnelProcess, ArgInv
<1>5. CASE TunnelStarted(c)
    BY <1>5 DEF TunnelStarted
<1>6. CASE TunnelStopped(c)
    BY <1>6 DEF TunnelStopped
<1>7. CASE StopSaved(c)
    BY <1>7 DEF StopSaved
<1>8. CASE StopForURL(c)
    BY <1>8 DEF StopForURL
<1>9. CASE SetURL(c)
    BY <1>9 DEF SetURL
<1>10. CASE StartTunnel(c)
    BY <1>10 DEF StartTunnel
<1>11. CASE StopTunnel(c)
    BY <1>11 DEF StopTunnel
<1>12. CASE SetTunnelURL(c)
    BY <1>12 DEF SetTunnelURL
<1> QED
    BY <1>1, <1>2, <1>3, <1>4, <1>5, <1>6, <1>7, <1>8, <1>9, <1>10, <1>11, <1>12
       DEF TunnelOrFirst, TunnelStep

\* Whatever becomes of a write, the file has settings or is cut off.
LEMMA SaveValues ==
    ASSUME NEW new \in Settings, NEW written \in BOOLEAN, file \in Settings \cup {Torn}, SaveOr(new, written)
    PROVE  settings' \in Settings /\ file' \in Settings \cup {Torn}
    BY DEF SaveOr

\* operationMu is held by the call that starts the process.
LEMMA TunnelValues ==
    ASSUME IInv, NEW c \in Callers, TunnelOrFirst(c)
    PROVE  /\ settings' \in Settings /\ file' \in Settings \cup {Torn}
           /\ target' \in Addresses \cup {None}
           /\ mode' \in {"stopped", "starting", "running"} /\ raced' \in BOOLEAN
           /\ opMu' \in Callers \cup {None}
           /\ \A d \in Callers : opMu' = d <=> pc'[d] = "starting"
<1> USE AddressesAssumption DEF IInv, TypeOK, Settings, Goes, GoesWith, Return, tunnel, saved
<1>1. CASE EnableTunnel(c)
  <2>1. [settings EXCEPT !.enabled = TRUE] \in Settings
      OBVIOUS
  <2>2. settings' \in Settings /\ file' \in Settings \cup {Torn}
      BY ONLY <1>1, <2>1, SaveValues, IInv DEF EnableTunnel, Save, IInv, TypeOK
  <2> QED
      BY <1>1, <2>2 DEF EnableTunnel
<1>2. CASE ReadCustom(c)
    BY <1>2 DEF ReadCustom
<1>3. CASE ReadURL(c)
    BY <1>3 DEF ReadURL
<1>4. CASE StartTunnelProcess(c)
    BY <1>4 DEF StartTunnelProcess
<1>5. CASE TunnelStarted(c)
    BY <1>5 DEF TunnelStarted, ArgInv
<1>6. CASE TunnelStopped(c)
    BY <1>6 DEF TunnelStopped, StopTunnelProcess
<1>7. CASE StopSaved(c)
  <2>1. Disabled \in Settings
      BY DEF Disabled
  <2>2. settings' \in Settings /\ file' \in Settings \cup {Torn}
      BY ONLY <1>7, <2>1, SaveValues, IInv DEF StopSaved, Save, IInv, TypeOK
  <2> QED
      BY <1>7, <2>2 DEF StopSaved
<1>8. CASE StopForURL(c)
    BY <1>8 DEF StopForURL, StopTunnelProcess
<1>9. CASE SetURL(c)
  <2>1. [Disabled EXCEPT !.custom = arg[c] = "custom"] \in Settings
      BY DEF Disabled
  <2>2. settings' \in Settings /\ file' \in Settings \cup {Torn}
      BY ONLY <1>9, <2>1, SaveValues, IInv DEF SetURL, Save, IInv, TypeOK
  <2> QED
      BY <1>9, <2>2 DEF SetURL
<1>10. CASE StartTunnel(c)
    BY <1>10 DEF StartTunnel
<1>11. CASE StopTunnel(c)
    BY <1>11 DEF StopTunnel
<1>12. CASE SetTunnelURL(c)
    BY <1>12 DEF SetTunnelURL
<1> QED
    BY <1>1, <1>2, <1>3, <1>4, <1>5, <1>6, <1>7, <1>8, <1>9, <1>10, <1>11, <1>12
       DEF TunnelOrFirst, TunnelStep

\* A start reads the address there is, and can rely on it until it has published
\* its tunnel, unless a change of the address is under way.
LEMMA TunnelUrl ==
    ASSUME IInv, NEW c \in Callers, TunnelOrFirst(c)
    PROVE  UrlInv'
<1> USE TunnelFrame, TunnelValues, AddressesAssumption
        DEF IInv, TypeOK, UrlInv, Reading, ListenPcs, Goes, GoesWith, Return, tunnel, server
<1>1. CASE EnableTunnel(c)
    BY <1>1 DEF EnableTunnel
<1>2. CASE ReadCustom(c)
    BY <1>2 DEF ReadCustom
<1>3. CASE ReadURL(c)
    BY <1>3 DEF ReadURL
<1>4. CASE StartTunnelProcess(c)
    BY <1>4 DEF StartTunnelProcess
<1>5. CASE TunnelStarted(c)
    BY <1>5 DEF TunnelStarted
<1>6. CASE TunnelStopped(c)
    BY <1>6 DEF TunnelStopped, StopTunnelProcess, UrlRead
<1>7. CASE StopSaved(c)
    BY <1>7 DEF StopSaved
<1>8. CASE StopForURL(c)
    BY <1>8 DEF StopForURL, StopTunnelProcess, UrlRead
<1>9. CASE SetURL(c)
    BY <1>9 DEF SetURL
<1>10. CASE StartTunnel(c)
    BY <1>10 DEF StartTunnel
<1>11. CASE StopTunnel(c)
    BY <1>11 DEF StopTunnel
<1>12. CASE SetTunnelURL(c)
    BY <1>12 DEF SetTunnelURL
<1> QED
    BY <1>1, <1>2, <1>3, <1>4, <1>5, <1>6, <1>7, <1>8, <1>9, <1>10, <1>11, <1>12
       DEF TunnelOrFirst, TunnelStep

LEMMA TunnelInv ==
    ASSUME IInv, NEW c \in Callers, TunnelOrFirst(c), UNCHANGED program
    PROVE  IInv'
<1> USE TunnelFrame, TunnelValues, TunnelUrl DEF IInv
<1>1. \A d \in Callers : controlMu' = d <=> pc'[d] \in ListenPcs
    BY DEF TypeOK, server, ListenPcs, TunnelPcs
<1>2. TypeOK'
    BY <1>1 DEF TypeOK, server, program
<1>3. ArgInv'
    BY DEF ArgInv, ListenPcs, TunnelPcs
<1>4. LifeInv'
    BY DEF LifeInv, server, Up, Closing, program
<1>5. HolderInv'
    BY DEF HolderInv, server, TunnelPcs
<1>6. OneServer'
    BY DEF OneServer, server, program
<1> QED
    BY <1>2, <1>3, <1>4, <1>5, <1>6

-----------------------------------------------------------------------------
(* SetListenAddr.  No other call is in the part that controlMu is for, and    *)
(* Shutdown is not.                                                           *)

LEMMA HolderAlone ==
    ASSUME IInv, NEW c \in Callers, controlMu \in {None, c}
    PROVE  life \notin Closing /\ \A d \in Callers \ {c} : pc[d] \notin ListenPcs
    BY AddressesAssumption DEF IInv, TypeOK, None, Main

LEMMA ListenValues ==
    ASSUME IInv, NEW c \in Callers, ListenStep(c) \/ SetListenAddr(c)
    PROVE  /\ settings' \in Settings /\ file' \in Settings \cup {Torn}
           /\ mode' \in {"stopped", "starting", "running"} /\ target' \in Addresses \cup {None}
           /\ raced' \in BOOLEAN /\ life \in Up
           /\ UNCHANGED opMu
           /\ \A d \in Callers \ {c} : pc'[d] = pc[d] /\ arg'[d] = arg[d] /\ old'[d] = old[d]
           /\ pc' \in [Callers -> {"idle", "lock"} \cup ListenPcs \cup TunnelPcs]
           /\ arg' \in [Callers -> Addresses \cup Domains \cup {None}]
           /\ old' \in [Callers -> Addresses \cup {None}]
           /\ pc[c] # "starting" /\ pc'[c] \in {"idle", "lock"} \cup ListenPcs
           /\ pc'[c] # "idle" => arg'[c] \in Addresses
<1> USE DEF IInv, TypeOK, LifeInv, Up, Closing, Settings, Goes, GoesWith, Return, ListenPcs, TunnelPcs, ArgInv, tunnel, saved
<1>1. CASE SetListenAddr(c)
    BY <1>1 DEF SetListenAddr
<1>2. CASE SameAddress(c)
  <2>1. [settings EXCEPT !.listen = arg[c]] \in Settings
      BY <1>2 DEF SameAddress
  <2>2. PICK written \in BOOLEAN : SaveOr([settings EXCEPT !.listen = arg[c]], written)
      BY <1>2 DEF SameAddress, Save
  <2>3. settings' \in Settings /\ file' \in Settings \cup {Torn}
      BY ONLY <2>1, <2>2, SaveValues, IInv DEF IInv, TypeOK
  <2> QED
      BY <1>2, <2>3 DEF SameAddress
<1>3. CASE LockControl(c)
    BY <1>3 DEF LockControl
<1>4. CASE StopFirst(c)
    BY <1>4 DEF StopFirst, StopTunnelProcess
<1>5. CASE DisableTunnel(c)
  <2>1. Disabled \in Settings
      BY <1>5 DEF DisableTunnel, Disabled
  <2>2. PICK written \in BOOLEAN : SaveOr(Disabled, written)
      BY <1>5 DEF DisableTunnel, Save
  <2>3. settings' \in Settings /\ file' \in Settings \cup {Torn}
      BY ONLY <2>1, <2>2, SaveValues, IInv DEF IInv, TypeOK
  <2> QED
      BY <1>5, <2>3 DEF DisableTunnel
<1>6. CASE CloseOld(c)
    BY <1>6 DEF CloseOld
<1>7. CASE OpenControlServer(c)
    BY <1>7 DEF OpenControlServer
<1>8. CASE RestoreOld(c)
    BY <1>8 DEF RestoreOld
<1>9. CASE Listening(c)
  <2>1. [settings EXCEPT !.listen = arg[c]] \in Settings
      BY <1>9 DEF Listening
  <2>2. PICK written \in BOOLEAN : SaveOr([settings EXCEPT !.listen = arg[c]], written)
      BY <1>9 DEF Listening, Save
  <2>3. settings' \in Settings /\ file' \in Settings \cup {Torn}
      BY ONLY <2>1, <2>2, SaveValues, IInv DEF IInv, TypeOK
  <2> QED
      BY <1>9, <2>3 DEF Listening
<1> QED
    BY <1>1, <1>2, <1>3, <1>4, <1>5, <1>6, <1>7, <1>8, <1>9 DEF ListenStep

\* The server: what the holder does to it, step by step.
LEMMA ListenServer ==
    ASSUME IInv, NEW c \in Callers, ListenStep(c) \/ SetListenAddr(c)
    PROVE  /\ listenAddr' \in Addresses /\ controlURL' \in Addresses
           /\ control' \in Addresses \cup {None} /\ open' \subseteq Addresses
           /\ controlMu' \in Callers \cup {Main, None}
           /\ \A d \in Callers : controlMu' = d <=> pc'[d] \in ListenPcs
           /\ controlMu' = Main <=> life \in Closing
           /\ HolderInv'
           /\ open' \subseteq {control'} \ {None}
           /\ controlMu' = None => control' \in {None, listenAddr'}
           /\ life = "up" => open' = {control'} \ {None}
           /\ life \in Closing => UNCHANGED <<control, listenAddr>>
<1> USE HolderAlone, AddressesAssumption
    DEF IInv, TypeOK, LifeInv, Up, Closing, Goes, GoesWith, Return, ListenPcs, ArgInv, HolderInv, OneServer, None, Main
<1>1. CASE SetListenAddr(c)
    BY <1>1 DEF SetListenAddr, server
<1>2. CASE SameAddress(c)
    BY <1>2 DEF SameAddress, server
<1>3. CASE LockControl(c)
    BY <1>3 DEF LockControl
<1>4. CASE StopFirst(c)
    BY <1>4 DEF StopFirst, server
<1>5. CASE DisableTunnel(c)
    BY <1>5 DEF DisableTunnel
<1>6. CASE CloseOld(c)
    BY <1>6 DEF CloseOld
<1>7. CASE OpenControlServer(c)
    BY <1>7 DEF OpenControlServer, Opened, NotOpened
<1>8. CASE RestoreOld(c)
    BY <1>8 DEF RestoreOld, Opened, NotOpened
<1>9. CASE Listening(c)
    BY <1>9 DEF Listening
<1> QED
    BY <1>1, <1>2, <1>3, <1>4, <1>5, <1>6, <1>7, <1>8, <1>9 DEF ListenStep

\* No start relies on the address that the holder of controlMu gives up.
LEMMA ListenUrl ==
    ASSUME IInv, NEW c \in Callers, ListenStep(c) \/ SetListenAddr(c)
    PROVE  UrlInv'
<1> USE ListenValues, HolderAlone, AddressesAssumption
    DEF IInv, TypeOK, UrlInv, Reading, Goes, GoesWith, Return, ListenPcs, HolderInv, ArgInv, tunnel, server
<1>1. CASE SetListenAddr(c)
    BY <1>1 DEF SetListenAddr
<1>2. CASE SameAddress(c)
    BY <1>2 DEF SameAddress
<1>3. CASE LockControl(c)
    BY <1>3 DEF LockControl, UrlRead
<1>4. CASE StopFirst(c)
    BY <1>4 DEF StopFirst, StopTunnelProcess, UrlRead
<1>5. CASE DisableTunnel(c)
    BY <1>5 DEF DisableTunnel
<1>6. CASE CloseOld(c)
    BY <1>6 DEF CloseOld
<1>7. CASE OpenControlServer(c)
    BY <1>7 DEF OpenControlServer, Opened, NotOpened
<1>8. CASE RestoreOld(c)
    BY <1>8 DEF RestoreOld, Opened, NotOpened
<1>9. CASE Listening(c)
    BY <1>9 DEF Listening
<1> QED
    BY <1>1, <1>2, <1>3, <1>4, <1>5, <1>6, <1>7, <1>8, <1>9 DEF ListenStep

LEMMA ListenInv ==
    ASSUME IInv, NEW c \in Callers, ListenStep(c) \/ SetListenAddr(c), UNCHANGED program
    PROVE  IInv'
<1> USE ListenValues, ListenServer, ListenUrl DEF IInv
<1>1. \A d \in Callers : opMu' = d <=> pc'[d] = "starting"
    BY DEF TypeOK, ListenPcs
<1>2. TypeOK'
    BY <1>1 DEF TypeOK, program
<1>3. ArgInv'
    BY DEF ArgInv, ListenPcs
<1>4. LifeInv'
    BY DEF LifeInv, Up, Closing, program
<1>5. OneServer'
    BY DEF OneServer, program
<1> QED
    BY <1>2, <1>3, <1>4, <1>5

-----------------------------------------------------------------------------
LEMMA TunnelEndsInv == IInv /\ TunnelEnds => IInv'
    BY DEF TunnelEnds, UrlRead, IInv, TypeOK, ArgInv, LifeInv, HolderInv, OneServer, UrlInv, Reading,
           Up, Closing, ListenPcs, call, program, server, saved

LEMMA StepInv == IInv /\ [Next]_vars => IInv'
<1> SUFFICES ASSUME IInv, [Next]_vars PROVE IInv'
    OBVIOUS
<1>1. ASSUME NEW c \in Callers, Continue(c) \/ Call(c) PROVE IInv'
  <2>1. UNCHANGED program
      BY <1>1 DEF Continue, Call
  <2>2. TunnelOrFirst(c) \/ ListenStep(c) \/ SetListenAddr(c)
      BY <1>1 DEF Continue, Call, TunnelOrFirst
  <2> QED
      BY <2>1, <2>2, TunnelInv, ListenInv
<1>2. CASE TunnelEnds
    BY <1>2, TunnelEndsInv
<1>3. CASE Gone
    BY <1>3, GoneInv
<1>4. CASE MainStep /\ ~Gone
    BY <1>4, MainInv
<1>5. CASE Exit \/ Crash
    BY <1>5, GoneInv DEF Exit, Crash
<1>6. CASE UNCHANGED vars
    BY <1>6 DEF IInv, TypeOK, ArgInv, LifeInv, HolderInv, OneServer, UrlInv, vars, call, program, server, tunnel,
          saved
<1> QED
    BY <1>1, <1>2, <1>3, <1>4, <1>5, <1>6 DEF Next, LifeStep, MainStep

LEMMA Invariance == Spec => []IInv
    BY InitInv, StepInv, PTL DEF Spec

\* The state has its type, and a mutex is held by the call that is in the part it
\* is for, and by no other.
THEOREM TypeCorrect == Spec => []TypeOK
    BY Invariance, PTL DEF IInv

\* One server at most, where the program says it is, for any number of goroutines
\* that call SetListenAddr, wherever one of them fails, and across quits and crashes.
THEOREM OneServerAtATime == Spec => []OneServer
    BY Invariance, PTL DEF IInv

\* A tunnel leads to the server there is, for any number of goroutines, unless a
\* start of it met a change of the address.
THEOREM TunnelsLeadToServer == Spec => []TunnelServesControl
<1>1. IInv => TunnelServesControl
    BY DEF IInv, UrlInv, TunnelServesControl
<1> QED
    BY <1>1, Invariance, PTL
=============================================================================
