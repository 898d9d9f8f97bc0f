------------------------------- MODULE MCData --------------------------------
(***************************************************************************)
(* The ways of the firmware's data side by side: blocks and tables from    *)
(* the port to the video memory (VdpDma), files from the ROM to the        *)
(* graphics memory (Unpack), what the commands put there and give the game *)
(* through the port (CmdHandlers), the scaled picture (Rescale), saved     *)
(* games to and from the memory with the battery (Eeprom).  TLC goes       *)
(* through them one after the other, each against what the others promise  *)
(* it: in a behaviour the one that "which" names is used.                  *)
(***************************************************************************)
EXTENDS VdpDma

CONSTANTS
    Values, MaxRun, MaxFile, Files, Start, Unit, Versions, Args,
    Windows, Factors, Offsets, FileSizes, Animations, Block, Loads, Track, Own, MaxCommands

VARIABLES
    which,
    unpacked_data, format, initial_dest_addr, dest_addr, copy_addr, runs, file_addr,
    want, files,
    bram, ram_dp, pc, arg, count, saved, torn,
    window, factor, stamp_offset, scale_pc, y, offset, scaled_stamp, s, written,
    sdram, port, sdram_en, bgm_unpack_addr, anim_max_index, mdp_on, mdp_cmd, vol,
    mwire_data_in, table, promised, commands

File == INSTANCE Unpack WITH unpack_addr <- file_addr
Saved == INSTANCE Eeprom

Scale == INSTANCE Rescale WITH pc <- scale_pc
Handlers == INSTANCE CmdHandlers WITH sdram_ptr <- port, count <- commands

\* the whole picture, a part of it, one column at either end, none
MCWindows == {<<0, 128>>, <<40, 97>>, <<0, 1>>, <<127, 128>>, <<64, 64>>}

\* files that end on a page or need several, and tables with an object more
\* or without animations
MCFileSizes == {<<1, 1, 1>>, <<1, 2, 3>>}
MCAnimations == {<<2, 1>>, <<0, 256, 3>>}

ASSUME StoresAssumption == File!UnpackAssumption /\ Saved!EepromAssumption
ASSUME CommandsAssumption == Scale!RescaleAssumption /\ Handlers!HandlersAssumption

fileVars ==
    <<unpacked_data, format, initial_dest_addr, dest_addr, copy_addr, runs, file_addr,
      want, files>>
savedVars == <<bram, ram_dp, pc, arg, count, saved, torn>>
scaleVars == <<window, factor, stamp_offset, scale_pc, y, offset, scaled_stamp, s, written>>
handlerVars ==
    <<sdram, port, sdram_en, bgm_unpack_addr, anim_max_index, mdp_on, mdp_cmd, vol,
      mwire_data_in, table, promised, commands>>
allVars == <<which, vars, fileVars, savedVars, scaleVars, handlerVars>>

\* what is chosen at the start of one is no choice for the others
DataInit ==
    /\ which \in {"dma", "file", "saved", "scale", "handlers"}
    /\ Init /\ File!Init /\ Saved!Init /\ Scale!Init /\ Handlers!Init
    /\ which # "scale" => window = <<64, 64>> /\ factor = 64 /\ stamp_offset = 0
    /\ which # "handlers" => mdp_on = FALSE

DmaStep ==
    which = "dma" /\ Next /\ UNCHANGED <<which, fileVars, savedVars, scaleVars, handlerVars>>
FileStep ==
    which = "file" /\ File!Next /\ UNCHANGED <<which, vars, savedVars, scaleVars, handlerVars>>
SavedStep ==
    which = "saved" /\ Saved!Next /\ UNCHANGED <<which, vars, fileVars, scaleVars, handlerVars>>
ScaleStep ==
    which = "scale" /\ Scale!Next /\ UNCHANGED <<which, vars, fileVars, savedVars, handlerVars>>
HandlerStep ==
    /\ which = "handlers" /\ Handlers!Next
    /\ UNCHANGED <<which, vars, fileVars, savedVars, scaleVars>>

DataNext == DmaStep \/ FileStep \/ SavedStep \/ ScaleStep \/ HandlerStep

DataSpec == DataInit /\ [][DataNext]_allVars
-----------------------------------------------------------------------------
\* A block is copied to where its sprites look for it, and no block is copied
\* over the sprite table.
BlocksAndTable == TypeOK /\ BlocksAtTheirTiles /\ TableStays

\* The console finds in the graphics memory what the runs of a file mean, and
\* the files after it leave it as it is.
FilesWhole == File!TypeOK /\ File!Decoded /\ File!FilesKept

\* An area of the saved games keeps and gives back what was last saved to it,
\* whatever is done to the others and whenever the power goes.
SavesKept == Saved!TypeOK /\ Saved!KeepsSaved /\ Saved!LoadsSaved

\* The scaled picture shows the stamp at its scale, each point where the video
\* chip looks for it, and touches nothing but its buffer.
PictureScaled == which = "scale" => Scale!TypeOK /\ Scale!Scaled /\ Scale!InItsArea

\* The port gives what the last command for it promised, and the files of the
\* set-up with the table of the animations stay, whatever is commanded.
PortAndFilesKept ==
    which = "handlers" =>
        /\ Handlers!TypeOK
        /\ Handlers!PortGivesPromised /\ Handlers!FilesStay /\ Handlers!AnimationsKnown
=============================================================================
