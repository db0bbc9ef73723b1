CONSTANTS
  None = None
  Programs <- MCPrograms
  Shaders <- MCShaders
  ShadersOf <- MCShadersOf
  StageOf <- MCStageOf
  Imports <- MCImports
  Requires <- MCRequires
  Broken <- MCBroken
  ActiveIn <- MCActiveIn
  Defines = {"FOG"}
  MaxEdits = 1
  Textures = {"tex2D", "tex1D"}
  OneDimensional = {"tex1D"}
  Images = {"one", "two"}
  ImageOf <- MCImageOf
  Sizes = {1, 2}
  Modes = {"GL_DEPTH_TEST", "GL_BLEND"}
  DepthTest = "GL_DEPTH_TEST"
  Uniforms = {"u1", "u2"}
  StateSets <- MCStateSets
  Optional = "lib"
  Host = "terrain"
  BuiltIn = {"fallback_plain", "fallback_textured"}
  MaxDepth = 2
  MaxEvents = 3
SPECIFICATION Spec
INVARIANT FallbackShowsTexture
CHECK_DEADLOCK FALSE
