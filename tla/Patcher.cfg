SPECIFICATION Spec
CONSTANTS Options <- MCOptions
          Builds <- MCBuilds
INVARIANTS PatchedOrRefused
