--------------------------- MODULE MCConfigStore ----------------------------
(* ConfigStore for TLC: one button, two inputs, two cameras, and an operator  *)
(* who only uses the form.                                                    *)
EXTENDS ConfigStore, TLC

CONSTANTS cam1, cam2, in1, in2, aux, b1, h1, one, t1

MCCameras == <<cam1, cam2>>
MCInputs == <<in1, in2>>

(* The example: vMix, one camera without a host, one input mapped to it, the  *)
(* other to nothing, as config.example.yaml has them ... *)
ExampleBase ==
    (<<"switcher">> :> "vmix") @@ CameraFields(cam1, Null, "on")
    @@ (<<"map", in1>> :> cam1) @@ (<<"map", in2>> :> Null)

(* ... and its button previews a source, as button_3. *)
ExampleBound == ExampleBase @@ ButtonEntry(b1, "preview", "source", in1)

NoDocuments == {}
==============================================================================
