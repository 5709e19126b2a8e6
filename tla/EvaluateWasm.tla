---------------------------- MODULE EvaluateWasm ----------------------------
(* The engine of the in-process evaluation of GO Feature Flag                *)
(* (evaluate-wasm.ts): how it finds and loads its WASM module, hands it a    *)
(* flag and reads the response.  The module itself is external; addresses    *)
(* have AddressBits bits here and 32 in the code.                            *)
EXTENDS Integers, Sequences, SequencesExt

CONSTANTS AddressBits,   \* width of an address and of a length in the module's memory
          ValueTypes,    \* typeof of the values a response can have
          ErrorCodes,    \* error codes of responses, NoError among them
          WasmPlacements \* what can be found at the places, [Places -> WasmFiles]

NoError == "none"        \* '', null or undefined
NoResponse == [errorCode |-> "GENERAL", value |-> "undefined"]
WasmFiles == {"missing", "partial", "whole"}

(* The strategies of resolveWasmPath, in their order.  A custom path that    *)
(* does not exist counts like none.                                          *)
Places == <<"custom", "relative", "node_modules", "require.resolve">>

ASSUME AddressBitsAssumption == AddressBits \in Nat \ {0}
ASSUME ResponsesAssumption ==
  /\ NoError \in ErrorCodes
  /\ WasmPlacements \subseteq [Range(Places) -> WasmFiles]

VARIABLES wasmFiles,     \* the file at each place
          wasmExports    \* the exports and the memory of the instance, or "null"

wasmVars == <<wasmFiles, wasmExports>>

WasmInit ==
  /\ wasmFiles \in WasmPlacements
  /\ wasmExports = "null"

resolveWasmPath ==
  LET existing == SelectSeq(Places, LAMBDA p : wasmFiles[p] # "missing")
  IN IF existing = <<>> THEN "none" ELSE Head(existing)

(* initialize() after its awaits.  The exports are stored before they are    *)
(* looked at.                                                                *)
loadEngine ==
  /\ resolveWasmPath # "none"
  /\ wasmExports' = wasmFiles[resolveWasmPath]
  /\ UNCHANGED wasmFiles

engineLoads == loadEngine /\ wasmExports' = "whole"

(* There is no file, it cannot be read or instantiated, or it does not       *)
(* export the functions.                                                     *)
engineThrows == UNCHANGED wasmVars \/ (loadEngine /\ wasmExports' = "partial")

disposeEngine == wasmExports' = "null" /\ UNCHANGED wasmFiles

-----------------------------------------------------------------------------
(* The result of the evaluate function: the address of the response in the   *)
(* higher bits, its length in the lower ones.                                *)
Width == 2 ^ AddressBits
packed(address, length) == address * Width + length

(* x & 0xffffffff in JavaScript: a signed number.                            *)
toInt32(x) == IF x < Width \div 2 THEN x ELSE x - Width

readFrom(result) == [pointer |-> toInt32(result \div Width), length |-> result % Width]

(* readFromMemory: an address or a length of zero throws; at a negative      *)
(* index the buffer has nothing, and what is decoded does not parse.         *)
isReadable(result) == readFrom(result).pointer > 0 /\ readFrom(result).length > 0

(* What evaluate() makes of the output at an address.                        *)
readBack(address, response) ==
  IF isReadable(packed(address, 1)) THEN response ELSE NoResponse

(* evaluate() once the engine is initialized: the response of the module and *)
(* what is made of it; every exception is caught.  Without exports or memory *)
(* malloc cannot be called.  The buffer of the input is freed in any case.   *)
evaluateNow ==
  {<<NoResponse, NoResponse>>}
    \union IF wasmExports # "whole" THEN {}
           ELSE {<<r, readBack(a, r)>> : r \in [errorCode : ErrorCodes, value : ValueTypes],
                                         a \in 1..(Width - 1)}

-----------------------------------------------------------------------------
WasmTypeOK ==
  /\ wasmFiles \in [Range(Places) -> WasmFiles]
  /\ wasmExports \in {"null", "partial", "whole"}
=============================================================================
